---- MODULE Spec2Model ----
(***************************************************************************)
(* Model of the heatmap propagation worker (src/public/wave-worker.js,     *)
(* the caching revision at lines 477-1080) and of the editor's request /   *)
(* result protocol (src/components/HeatmapEditor.tsx).                     *)
(*                                                                         *)
(* Numbers.  Pixels are integers.  Signals and losses are integers in      *)
(* milli-dB (1 dB = 1000).  Path distances are integers in "distance       *)
(* units": one orthogonal grid step is DistUnit units, so a metre is       *)
(* DistUnit * pixelsPerMeter / cellSize units.  log10, sqrt and atan2 are  *)
(* computed by integer algorithms (binary logarithm by repeated squaring,  *)
(* bisection square root, CORDIC), not looked up.                          *)
(*                                                                         *)
(* Not modelled.  The worker keeps its grids in Float32Array and its       *)
(* arithmetic in doubles; the model keeps every value at milli-dB          *)
(* resolution and has no single-precision rounding of stored values.  A    *)
(* mirrored source enters the direct-distance term rounded to half a       *)
(* pixel.  The scenes use axis-parallel metal walls, where the mirror      *)
(* image is exact.                                                         *)
(***************************************************************************)
EXTENDS Integers, Sequences, FiniteSets, TLC

VARIABLES
    \* propagateWave for one emitter, one queue iteration at a time
    scene,        \* the emitter, walls and doors propagateWave was called with
    pc,           \* "main": direct run; "refl": a reflection run; "done": returned
    run,          \* the arrays and the queue of the runDijkstra call in progress
    runCtx,       \* the arguments of that call
    mainField,    \* mainSignalGrid / mainDistGrid
    reflIdx,      \* index into wallsToProcess of the reflection in progress
    \* buildAttenuationGrid, one wall sample at a time
    rasterWalls,  \* the walls argument
    rasterDoors,  \* the doors argument
    rasterGrid,   \* grid
    rasterWall,   \* position of the "for (const wall of walls)" loop
    rasterStep,   \* i of the sample loop
    \* the worker
    warmedUp,     \* the WARMUP message has been handled
    apCache,      \* apCache: ap id -> << >> or << entry >>
    lastEnvironmentHash,
    posted,       \* << >> or << the message last posted >>
    received,     \* << >> or << the compute request last handled >>
    served,       \* how the last request was served (history, see NoteServed)
    \* the editor and its worker
    calculationIdRef,
    apsCount,     \* aps.length
    sceneVersion, \* stands for the contents of aps, walls, doors, pixelsPerMeter
    draggedApId,  \* "null" or the id of the emitter being dragged
    toWorker,     \* messages posted to the worker, not yet handled
    toEditor,     \* results posted by the worker, not yet handled
    signalGridRef,\* << >> for null, or << the grids on display >>
    receivedId,   \* debugInfo.receivedId
    \* runDijkstra with its Float32Array stores
    above,        \* cells whose stored total loss lies above the computed one
    \* a PriorityQueue on its own
    pqHeap,       \* this.heap
    pqReturned,   \* whether dequeue() was called, and what the last call returned
    \* the editor's scene
    editorWalls,  \* walls: the ids of the walls, in order
    editorDoors,  \* doors: [id, wallId] of each door, in order
    editorAps,    \* aps: the ids of the emitters, in order
    selectedEntity, \* << >> for null, or << [type, id] >>
    uuidCount,    \* how many ids crypto.randomUUID() has handed out
    \* mirrorPointAcrossLine on its own, in IEEE double arithmetic
    mirrorArgs,   \* [point, lineStart, lineEnd]
    virtualAPPos  \* << >> or << the point returned >>

solverVars == << scene, pc, run, runCtx, mainField, reflIdx >>

rasterVars == << rasterWalls, rasterDoors, rasterGrid, rasterWall, rasterStep >>

editorVars == << calculationIdRef, apsCount, sceneVersion, draggedApId, toWorker, toEditor,
                signalGridRef, receivedId >>

workerVars == << warmedUp, apCache, lastEnvironmentHash, posted, received, served >>

queueVars == << pqHeap, pqReturned >>

sceneVars == << editorWalls, editorDoors, editorAps, selectedEntity, uuidCount >>

mirrorVars == << mirrorArgs, virtualAPPos >>

unitVars == << above, queueVars, sceneVars, mirrorVars >>

vars == << scene, pc, run, runCtx, mainField, reflIdx,
           rasterWalls, rasterDoors, rasterGrid, rasterWall, rasterStep,
           warmedUp, apCache, lastEnvironmentHash, posted, received, served,
           calculationIdRef, apsCount, sceneVersion, draggedApId, toWorker, toEditor,
           signalGridRef, receivedId,
           above, pqHeap, pqReturned,
           editorWalls, editorDoors, editorAps, selectedEntity, uuidCount,
           mirrorArgs, virtualAPPos >>

\* ------------------------------------------------------------------------
\* Integer arithmetic helpers
\* ------------------------------------------------------------------------

Max(a, b) == IF a >= b THEN a ELSE b

Min(a, b) == IF a <= b THEN a ELSE b

Abs(a) == IF a < 0 THEN -a ELSE a

\* Math.sign
Sign(v) == IF v > 0 THEN 1 ELSE IF v < 0 THEN -1 ELSE 0

\* Math.ceil(a / b) for b > 0
CeilDiv(a, b) == -((-a) \div b)

RECURSIVE Pow2(_)
Pow2(n) == IF n = 0 THEN 1 ELSE 2 * Pow2(n - 1)

RECURSIVE SqrtSearch(_, _, _)
SqrtSearch(n, lo, hi) ==
    IF hi - lo <= 1 THEN lo
    ELSE LET mid == (lo + hi) \div 2
         IN  IF mid * mid <= n THEN SqrtSearch(n, mid, hi) ELSE SqrtSearch(n, lo, mid)

\* floor(Math.sqrt(n)) for 0 <= n < 2^31
ISqrt(n) == SqrtSearch(n, 0, 46341)

RECURSIVE FloorLog2(_)
FloorLog2(x) == IF x < 2 THEN 0 ELSE 1 + FloorLog2(x \div 2)

\* m * m / 2^23 for a 24-bit mantissa m, without leaving 32 bits
SquareMantissa(m) ==
    LET h == m \div 4096
        l == m % 4096
    IN  2 * h * h + (h * l) \div 1024 + (l * l) \div 8388608

RECURSIVE Log2Bits(_, _, _)
Log2Bits(m, n, acc) ==
    IF n = 0 THEN acc
    ELSE LET sq == SquareMantissa(m)
         IN  IF sq >= 16777216
             THEN Log2Bits(sq \div 2, n - 1, 2 * acc + 1)
             ELSE Log2Bits(sq, n - 1, 2 * acc)

\* floor(65536 * log2(x)) for an integer x >= 1
Log2Q16(x) ==
    LET k == FloorLog2(x)
        m == IF k <= 23 THEN x * Pow2(23 - k) ELSE x \div Pow2(k - 23)
    IN  k * 65536 + Log2Bits(m, 16, 0)

\* 10 * Math.log10(num / den) in milli-dB, for integers num, den >= 1
TenLog10(num, den) ==
    LET d == Log2Q16(num) - Log2Q16(den)
        k == d \div 65536
        f == d % 65536
    IN  (k * 30103) \div 10 + (f * 30103) \div 655360

\* ------------------------------------------------------------------------
\* Constants of the worker and of the editor's requests
\* ------------------------------------------------------------------------

\* One orthogonal grid step in distance units
DistUnit == 10000

\* The diagonal step: stepSizeMeters * 1.4142
DiagUnit == 14142

\* Float32Array.fill(Infinity): larger than every loss or distance computed
Infinity == 2147483647

\* signalGrid.fill(-120), in milli-dB
Floor == -120000

DEFAULT_PIXELS_PER_METER == 40

GRID_SIZE == 10

Materials == {"glass", "drywall", "wood", "brick", "concrete", "metal"}

\* MATERIAL_ATTENUATION[wall.material] || 0, in dB
MATERIAL_ATTENUATION(material) ==
    CASE material = "glass" -> 3
      [] material = "drywall" -> 5
      [] material = "wood" -> 8
      [] material = "brick" -> 20
      [] material = "concrete" -> 35
      [] material = "metal" -> 80
      [] OTHER -> 0

\* ['concrete', 'brick', 'metal'].includes(wall.material)
IsSolid(material) == material \in {"concrete", "brick", "metal"}

Pt(x, y) == [x |-> x, y |-> y]

\* ------------------------------------------------------------------------
\* Geometry helpers
\* ------------------------------------------------------------------------

getSideOfLine(a, b, p) ==
    Sign((b.x - a.x) * (p.y - a.y) - (b.y - a.y) * (p.x - a.x))

\* Math.ceil(width / cellSize)
GridCols(width, cellSize) == CeilDiv(width, cellSize)

GridRows(height, cellSize) == CeilDiv(height, cellSize)

\* ------------------------------------------------------------------------
\* buildAttenuationGrid: densities in milli-dB per metre
\* ------------------------------------------------------------------------

\* wall.thickness || 12
ThicknessPixels(wall) == IF wall.thickness = 0 THEN 12 ELSE wall.thickness

\* a density with one fixed value for metal, whatever its thickness
AttenuationDensity_FixedMetal(wall, pixelsPerMeter) ==
    IF wall.material = "metal" THEN 2000000
    ELSE (MATERIAL_ATTENUATION(wall.material) * 1000 * pixelsPerMeter) \div ThicknessPixels(wall)

\* totalAttenuation / thicknessMeters, doubled for concrete, brick and metal
AttenuationDensity(wall, pixelsPerMeter) ==
    LET perMeter == (MATERIAL_ATTENUATION(wall.material) * 1000 * pixelsPerMeter)
    IN  IF IsSolid(wall.material)
        THEN (perMeter * 2) \div ThicknessPixels(wall)
        ELSE perMeter \div ThicknessPixels(wall)

\* a block of the sample's own cell only
StampRadius_SingleCell(wall, cellSize) == 0

\* Math.ceil(Math.max(minThicknessCells * 2, thicknessPixels / cellSize) / 2)
StampRadius(wall, cellSize) ==
    LET minTwice == IF IsSolid(wall.material) THEN 3 ELSE 1
    IN  CeilDiv(Max(minTwice * cellSize, ThicknessPixels(wall)), 2 * cellSize)

LengthSq(wall) ==
    (wall.end.x - wall.start.x) * (wall.end.x - wall.start.x)
    + (wall.end.y - wall.start.y) * (wall.end.y - wall.start.y)

\* Math.hypot(x2 - x1, y2 - y1), in hundredths of a pixel
WallLength100(wall) == ISqrt(10000 * LengthSq(wall))

\* Math.ceil(wallLength / (cellSize / 4))
SampleSteps(wall, cellSize) ==
    LET n16 == 16 * LengthSq(wall)
        root == ISqrt(n16)
    IN  IF root * root = n16 THEN CeilDiv(root, cellSize) ELSE root \div cellSize + 1

\* the door loop: distAlongWall within [doorPos - halfWidth, doorPos + halfWidth]
IsGap(wall, doors, i, steps) ==
    \E k \in 1..Len(doors) :
        /\ doors[k].wallId = wall.id
        /\ 2 * WallLength100(wall) * Abs(100 * i - doors[k].ratio * steps)
               <= 10000 * steps * doors[k].width

\* Math.floor(x / cellSize) of the sample x = x1 + (x2 - x1) * i / steps
SampleCell(from, to, i, steps, cellSize) ==
    (from * steps + (to - from) * i) \div (steps * cellSize)

\* the body of the dr/dc loops for the k-th cell of the block
StampCell(grid, baseRow, baseCol, radius, density, cols, rows, k) ==
    LET r == baseRow + (k \div (2 * radius + 1)) - radius
        c == baseCol + (k % (2 * radius + 1)) - radius
    IN  IF r >= 0 /\ r < rows /\ c >= 0 /\ c < cols
        THEN [grid EXCEPT ![r * cols + c] = Max(@, density)]
        ELSE grid

\* the dr/dc loops: Math.max(grid[idx], attenuationDensity) over the block.
\* (The test of DOMAIN grid in the three loops below makes TLC evaluate the
\* grid so far before it descends; a grid without cells has nothing to stamp.)
RECURSIVE StampBlockFrom(_, _, _, _, _, _, _, _)
StampBlockFrom(grid, baseRow, baseCol, radius, density, cols, rows, k) ==
    IF DOMAIN grid = {} \/ k >= (2 * radius + 1) * (2 * radius + 1) THEN grid
    ELSE StampBlockFrom(StampCell(grid, baseRow, baseCol, radius, density, cols, rows, k),
                        baseRow, baseCol, radius, density, cols, rows, k + 1)

StampBlock(grid, baseRow, baseCol, radius, density, cols, rows) ==
    StampBlockFrom(grid, baseRow, baseCol, radius, density, cols, rows, 0)

\* one iteration of the sample loop.  For a zero-length wall steps is 0,
\* t = 0 / 0 is NaN, every comparison with the NaN row and column is false
\* and nothing is stamped.
StampSample(grid, wall, doors, i, cols, rows, cellSize, pixelsPerMeter) ==
    LET steps == SampleSteps(wall, cellSize)
    IN  IF steps = 0 \/ IsGap(wall, doors, i, steps) THEN grid
        ELSE StampBlock(grid,
                        SampleCell(wall.start.y, wall.end.y, i, steps, cellSize),
                        SampleCell(wall.start.x, wall.end.x, i, steps, cellSize),
                        StampRadius(wall, cellSize),
                        AttenuationDensity(wall, pixelsPerMeter), cols, rows)

RECURSIVE RasterizeWall(_, _, _, _, _, _, _, _)
RasterizeWall(grid, wall, doors, i, cols, rows, cellSize, pixelsPerMeter) ==
    IF DOMAIN grid = {} \/ i > SampleSteps(wall, cellSize) THEN grid
    ELSE RasterizeWall(StampSample(grid, wall, doors, i, cols, rows, cellSize, pixelsPerMeter),
                       wall, doors, i + 1, cols, rows, cellSize, pixelsPerMeter)

RECURSIVE RasterizeWalls(_, _, _, _, _, _, _, _)
RasterizeWalls(grid, walls, doors, k, cols, rows, cellSize, pixelsPerMeter) ==
    IF DOMAIN grid = {} \/ k > Len(walls) THEN grid
    ELSE RasterizeWalls(RasterizeWall(grid, walls[k], doors, 0, cols, rows, cellSize, pixelsPerMeter),
                        walls, doors, k + 1, cols, rows, cellSize, pixelsPerMeter)

EmptyGrid(cols, rows) == [idx \in 0..(cols * rows - 1) |-> 0]

buildAttenuationGrid(walls, doors, width, height, cellSize, pixelsPerMeter) ==
    LET cols == GridCols(width, cellSize)
        rows == GridRows(height, cellSize)
    IN  RasterizeWalls(EmptyGrid(cols, rows), walls, doors, 1, cols, rows, cellSize, pixelsPerMeter)

\* mirrorPointAcrossLine.  The result is exact: the mirrored point is
\* (x / den, y / den); a zero-length line returns the point itself.
mirrorPointAcrossLine(point, lineStart, lineEnd) ==
    LET dx == lineEnd.x - lineStart.x
        dy == lineEnd.y - lineStart.y
        len2 == dx * dx + dy * dy
        dot == (point.x - lineStart.x) * dx + (point.y - lineStart.y) * dy
    IN  IF len2 = 0 THEN [x |-> point.x, y |-> point.y, den |-> 1]
        ELSE [x |-> 2 * (lineStart.x * len2 + dot * dx) - point.x * len2,
              y |-> 2 * (lineStart.y * len2 + dot * dy) - point.y * len2,
              den |-> len2]

\* a pixel position as a point with denominator 1
Exact(p) == [x |-> p.x, y |-> p.y, den |-> 1]

\* twice the coordinate v / den, rounded to the nearest half pixel
TwiceCoord(v, den) == (4 * v + den) \div (2 * den)

\* ------------------------------------------------------------------------
\* PriorityQueue: a binary heap held in a sequence (heap[1] is this.heap[0])
\* ------------------------------------------------------------------------

RECURSIVE BubbleLoop(_, _, _)
BubbleLoop(heap, idx, element) ==
    IF idx <= 1 THEN heap
    ELSE LET parentIdx == idx \div 2
             parent == heap[parentIdx]
         IN  IF element.priority >= parent.priority THEN heap
             ELSE BubbleLoop([heap EXCEPT ![parentIdx] = element, ![idx] = parent],
                             parentIdx, element)

bubbleUp(heap) == BubbleLoop(heap, Len(heap), heap[Len(heap)])

enqueue(heap, element, priority) ==
    bubbleUp(Append(heap, [element |-> element, priority |-> priority]))

\* a sink loop that never looks at the right child
RECURSIVE SinkLoop_LeftOnly(_, _, _)
SinkLoop_LeftOnly(heap, idx, element) ==
    LET length == Len(heap)
        leftChildIdx == 2 * idx
        swap == IF leftChildIdx <= length /\ heap[leftChildIdx].priority < element.priority
                THEN leftChildIdx ELSE 0
    IN  IF swap = 0 THEN heap
        ELSE SinkLoop_LeftOnly([heap EXCEPT ![idx] = heap[swap], ![swap] = element], swap, element)

\* the loop of sinkDown
RECURSIVE SinkLoop(_, _, _)
SinkLoop(heap, idx, element) ==
    LET length == Len(heap)
        leftChildIdx == 2 * idx
        rightChildIdx == 2 * idx + 1
        swapLeft == leftChildIdx <= length /\ heap[leftChildIdx].priority < element.priority
        swapRight == /\ rightChildIdx <= length
                     /\ \/ ~swapLeft /\ heap[rightChildIdx].priority < element.priority
                        \/ swapLeft /\ heap[rightChildIdx].priority < heap[leftChildIdx].priority
        swap == IF swapRight THEN rightChildIdx ELSE IF swapLeft THEN leftChildIdx ELSE 0
    IN  IF swap = 0 THEN heap
        ELSE SinkLoop([heap EXCEPT ![idx] = heap[swap], ![swap] = element], swap, element)

sinkDown(heap) == SinkLoop(heap, 1, heap[1])

\* what dequeue() returns: << >> for undefined, else << min.element >>
dequeued(heap) == IF Len(heap) = 0 THEN << >> ELSE << heap[1].element >>

\* the heap left by dequeue() (the element returned is heap[1].element)
dequeue(heap) ==
    IF Len(heap) = 0 THEN heap
    ELSE LET end == heap[Len(heap)]
             rest == SubSeq(heap, 1, Len(heap) - 1)
         IN  IF Len(rest) > 0 THEN sinkDown([rest EXCEPT ![1] = end]) ELSE rest

\* ------------------------------------------------------------------------
\* runDijkstra
\* ------------------------------------------------------------------------

FREQUENCY_MHZ == 5000

\* 20 * Math.log10(FREQUENCY_MHZ) - 27.55, in milli-dB
CONSTANT_FSPL == 2 * TenLog10(FREQUENCY_MHZ, 1) - 27550

\* 10 * PATH_LOSS_EXPONENT
PathLossTimesTen == 35

\* the directions array: row step, column step, length in distance units
Directions ==
    << [dr |-> -1, dc |-> 0, dist |-> DistUnit], [dr |-> 1, dc |-> 0, dist |-> DistUnit],
       [dr |-> 0, dc |-> -1, dist |-> DistUnit], [dr |-> 0, dc |-> 1, dist |-> DistUnit],
       [dr |-> -1, dc |-> -1, dist |-> DiagUnit], [dr |-> -1, dc |-> 1, dist |-> DiagUnit],
       [dr |-> 1, dc |-> -1, dist |-> DiagUnit], [dr |-> 1, dc |-> 1, dist |-> DiagUnit] >>

\* Math.atan(2^-i) in thousandths of a degree, i = 0..13
AtanTable == << 45000, 26565, 14036, 7125, 3576, 1790, 895, 448, 224, 112, 56, 28, 14, 7 >>

RECURSIVE Cordic(_, _, _, _)
Cordic(x, y, i, angle) ==
    IF i > Len(AtanTable) \/ y = 0 THEN angle
    ELSE LET p == Pow2(i - 1)
         IN  IF y > 0
             THEN Cordic(x + y \div p, y - x \div p, i + 1, angle + AtanTable[i])
             ELSE Cordic(x - y \div p, y + x \div p, i + 1, angle - AtanTable[i])

\* Math.atan2(dy, dx) in thousandths of a degree, in (-180000, 180000]
Atan2Deg(dy, dx) ==
    IF dx = 0 /\ dy = 0 THEN 0
    ELSE IF dx >= 0 THEN Cordic(dx * 4096, dy * 4096, 1, 0)
    ELSE IF dy >= 0 THEN Cordic((-dx) * 4096, (-dy) * 4096, 1, 180000)
    ELSE Cordic((-dx) * 4096, (-dy) * 4096, 1, -180000)

\* the directional branch: frontToBackRatio when the wrapped angle
\* difference exceeds half the beamwidth, else nothing (milli-dB)
DirectionalLoss(antennaProps, dy2, dx2) ==
    IF ~antennaProps.isDirectional THEN 0
    ELSE LET azimuth == antennaProps.azimuth - 90
             beamwidth == IF antennaProps.beamwidth = 0 THEN 360 ELSE antennaProps.beamwidth
             frontToBackRatio == IF antennaProps.frontToBackRatio = 0 THEN 20
                                 ELSE antennaProps.frontToBackRatio
             raw == Abs(Atan2Deg(dy2, dx2) - 1000 * azimuth)
             angleDiff == IF raw > 180000 THEN 360000 - raw ELSE raw
         IN  IF angleDiff > 500 * beamwidth THEN 1000 * frontToBackRatio ELSE 0

\* maskFn(nc, nr): none for the direct run, the half-plane test of the
\* cell's corner for a reflection run
MaskAllows(mask, nc, nr, cellSize) ==
    mask.on => getSideOfLine(mask.a, mask.b, Pt(nc * cellSize, nr * cellSize)) = mask.side

NoMask == [on |-> FALSE, a |-> Pt(0, 0), b |-> Pt(0, 0), side |-> 0]

\* Math.sqrt(dx * dx + dy * dy) / pixelsPerMeter, in distance units
DirectDist(dx2, dy2, cellSize) ==
    (ISqrt(10000 * (dx2 * dx2 + dy2 * dy2)) * (DistUnit \div 200)) \div cellSize

\* cellAttenuationDensity * dir.dist, in milli-dB
StepWallLoss(density, dist, cellSize, pixelsPerMeter) ==
    LET perStep == (density * cellSize) \div pixelsPerMeter
    IN  perStep * (dist \div DistUnit) + (perStep * (dist % DistUnit)) \div DistUnit

\* (10 * PATH_LOSS_EXPONENT) * Math.log10(Math.max(0.1, effectiveDist)) + CONSTANT_FSPL
FsplLoss(effectiveDist, cellSize, pixelsPerMeter) ==
    LET clamped == Max(effectiveDist * cellSize, (DistUnit * pixelsPerMeter) \div 10)
    IN  (PathLossTimesTen * TenLog10(clamped, DistUnit * pixelsPerMeter)) \div 10 + CONSTANT_FSPL

\* fsplLoss + newWallLoss of a path of length newDist and wall loss
\* newWallLoss that ends in cell (nr, nc): the hybrid distance rule, the
\* FSPL term and the directional penalty
TotalLossAt(ctx, nr, nc, newDist, newWallLoss) ==
    LET dx2 == 2 * nc * ctx.cellSize + ctx.cellSize - TwiceCoord(ctx.startPoint.x, ctx.startPoint.den)
        dy2 == 2 * nr * ctx.cellSize + ctx.cellSize - TwiceCoord(ctx.startPoint.y, ctx.startPoint.den)
        directDist == DirectDist(dx2, dy2, ctx.cellSize)
        minDirect == (DistUnit * ctx.pixelsPerMeter) \div (100 * ctx.cellSize)
        effectiveDist == IF 10 * newDist < 11 * Max(minDirect, directDist)
                         THEN directDist ELSE newDist
        fsplLoss == FsplLoss(effectiveDist, ctx.cellSize, ctx.pixelsPerMeter)
                    + DirectionalLoss(ctx.antennaProps, dy2, dx2)
    IN  fsplLoss + newWallLoss

\* the candidate computed for the neighbour newIdx of the dequeued cell
Candidate(ctx, currentWallLoss, currentDist, nr, nc, dir) ==
    LET newIdx == nr * ctx.cols + nc
        newWallLoss == currentWallLoss
                       + StepWallLoss(ctx.attenuationGrid[newIdx], dir.dist, ctx.cellSize, ctx.pixelsPerMeter)
        newDist == currentDist + dir.dist
    IN  [newIdx |-> newIdx, newWallLoss |-> newWallLoss, newDist |-> newDist,
         newTotalLoss |-> TotalLossAt(ctx, nr, nc, newDist, newWallLoss)]

\* the body of the direction loop for one direction
Relax(st, ctx, currentIdx, currentWallLoss, currentDist, dir) ==
    LET nr == (currentIdx \div ctx.cols) + dir.dr
        nc == (currentIdx % ctx.cols) + dir.dc
    IN  IF ~(nr >= 0 /\ nr < ctx.rows /\ nc >= 0 /\ nc < ctx.cols) THEN st
        ELSE IF ~MaskAllows(ctx.mask, nc, nr, ctx.cellSize) THEN st
        ELSE LET cand == Candidate(ctx, currentWallLoss, currentDist, nr, nc, dir)
                 newIdx == cand.newIdx
             IN  IF cand.newTotalLoss < st.totalLossState[newIdx]
                 THEN [signalGrid |-> [st.signalGrid EXCEPT ![newIdx] = ctx.startSignal - cand.newTotalLoss],
                       distGrid |-> [st.distGrid EXCEPT ![newIdx] =
                                        Max((DistUnit * ctx.pixelsPerMeter) \div (10 * ctx.cellSize), cand.newDist)],
                       totalLossState |-> [st.totalLossState EXCEPT ![newIdx] = cand.newTotalLoss],
                       wallLossState |-> [st.wallLossState EXCEPT ![newIdx] = cand.newWallLoss],
                       distState |-> [st.distState EXCEPT ![newIdx] = cand.newDist],
                       heap |-> enqueue(st.heap, newIdx, cand.newTotalLoss)]
                 ELSE st

RECURSIVE RelaxAll(_, _, _, _, _, _)
RelaxAll(st, ctx, currentIdx, currentWallLoss, currentDist, k) ==
    IF k > Len(Directions) THEN st
    ELSE RelaxAll(Relax(st, ctx, currentIdx, currentWallLoss, currentDist, Directions[k]),
                  ctx, currentIdx, currentWallLoss, currentDist, k + 1)

\* whether a dequeued cell is expanded: the guard currentSignal <= -120
Expands(currentSignal) == currentSignal > Floor

\* one iteration of the while loop: dequeue a cell and relax its neighbours
DijkstraStep(st, ctx) ==
    LET currentIdx == st.heap[1].element
        popped == [st EXCEPT !.heap = dequeue(st.heap)]
    IN  IF ~Expands(st.signalGrid[currentIdx]) THEN popped
        ELSE RelaxAll(popped, ctx, currentIdx, st.wallLossState[currentIdx],
                      st.distState[currentIdx], 1)

\* the state of runDijkstra when the while loop is first reached (or the
\* early return for a start cell outside the grid: an empty queue)
DijkstraStart(ctx) ==
    LET size == ctx.cols * ctx.rows
        startCol == ctx.startPoint.x \div (ctx.startPoint.den * ctx.cellSize)
        startRow == ctx.startPoint.y \div (ctx.startPoint.den * ctx.cellSize)
        startIdx == startRow * ctx.cols + startCol
        blank == [signalGrid |-> [i \in 0..(size - 1) |-> Floor],
                  distGrid |-> [i \in 0..(size - 1) |-> Infinity],
                  totalLossState |-> [i \in 0..(size - 1) |-> Infinity],
                  wallLossState |-> [i \in 0..(size - 1) |-> 0],
                  distState |-> [i \in 0..(size - 1) |-> 0],
                  heap |-> << >>]
    IN  IF startCol < 0 \/ startCol >= ctx.cols \/ startRow < 0 \/ startRow >= ctx.rows
        THEN blank
        ELSE [blank EXCEPT !.signalGrid[startIdx] = ctx.startSignal,
                           !.distGrid[startIdx] = 0,
                           !.totalLossState[startIdx] = 0,
                           !.heap = enqueue(<< >>, startIdx, 0)]

RECURSIVE DijkstraLoop(_, _)
DijkstraLoop(st, ctx) ==
    IF Len(st.heap) = 0 THEN st ELSE DijkstraLoop(DijkstraStep(st, ctx), ctx)

RunContext(startPoint, startSignal, attenuationGrid, cols, rows, cellSize, pixelsPerMeter, mask, antennaProps) ==
    [startPoint |-> startPoint, startSignal |-> startSignal, attenuationGrid |-> attenuationGrid,
     cols |-> cols, rows |-> rows, cellSize |-> cellSize, pixelsPerMeter |-> pixelsPerMeter,
     mask |-> mask, antennaProps |-> antennaProps]

runDijkstra(ctx) == DijkstraLoop(DijkstraStart(ctx), ctx)

\* ------------------------------------------------------------------------
\* propagateWave: the direct field merged with the metal-wall reflections
\* ------------------------------------------------------------------------

MAX_REFLECTIONS == 6

\* the antenna properties handed to the direct run
AntennaOf(ap) ==
    [isDirectional |-> ap.isDirectional, azimuth |-> ap.azimuth,
     beamwidth |-> ap.beamwidth, frontToBackRatio |-> ap.frontToBackRatio]

\* { isDirectional: false }
OmniAntenna == [isDirectional |-> FALSE, azimuth |-> 0, beamwidth |-> 0, frontToBackRatio |-> 0]

\* the squared point-to-segment distance of the sort key, times 100
DistSq100(ap, w) ==
    LET A == w.start.x - ap.x
        B == w.start.y - ap.y
        C == w.end.x - w.start.x
        D == w.end.y - w.start.y
        dot == A * C + B * D
        len_sq == C * C + D * D
        toEndX == ap.x - w.end.x
        toEndY == ap.y - w.end.y
    IN  IF len_sq = 0 \/ dot > 0 THEN 100 * (A * A + B * B)
        ELSE IF -dot > len_sq THEN 100 * (toEndX * toEndX + toEndY * toEndY)
        ELSE 100 * (A * A + B * B)
             - (((dot * dot) \div len_sq) * 100 + (((dot * dot) % len_sq) * 100) \div len_sq)

\* insertion into a sequence sorted by distSq, after the entries that
\* compare equal (Array.prototype.sort is stable)
RECURSIVE InsertByDist(_, _, _, _)
InsertByDist(sorted, w, ap, k) ==
    IF k > Len(sorted) THEN Append(sorted, w)
    ELSE IF DistSq100(ap, w) < DistSq100(ap, sorted[k])
         THEN SubSeq(sorted, 1, k - 1) \o << w >> \o SubSeq(sorted, k, Len(sorted))
         ELSE InsertByDist(sorted, w, ap, k + 1)

RECURSIVE SortByDist(_, _, _, _)
SortByDist(ws, ap, k, acc) ==
    IF k > Len(ws) THEN acc ELSE SortByDist(ws, ap, k + 1, InsertByDist(acc, ws[k], ap, 1))

IsMetal(w) == w.material = "metal"

\* the first metal walls in input order, without the sort
WallsToProcess_Unsorted(ap, walls) ==
    LET metalWalls == SelectSeq(walls, IsMetal)
    IN  SubSeq(metalWalls, 1, Min(MAX_REFLECTIONS, Len(metalWalls)))

\* sortedMetalWalls.slice(0, MAX_REFLECTIONS)
WallsToProcess(ap, walls) ==
    LET sorted == SortByDist(SelectSeq(walls, IsMetal), ap, 1, << >>)
    IN  SubSeq(sorted, 1, Min(MAX_REFLECTIONS, Len(sorted)))

\* walls.filter(w => w.id !== wall.id)
WithoutWall(walls, wall) == SelectSeq(walls, LAMBDA w : w.id # wall.id)

\* the mask closure of a reflection run
ReflectionMask(ap, wall) ==
    [on |-> TRUE, a |-> wall.start, b |-> wall.end,
     side |-> getSideOfLine(wall.start, wall.end, Pt(ap.x, ap.y))]

DirectContext(ap, walls, doors, canvasWidth, canvasHeight, cellSize, pixelsPerMeter) ==
    RunContext(Exact(Pt(ap.x, ap.y)), 1000 * ap.txPower,
               buildAttenuationGrid(walls, doors, canvasWidth, canvasHeight, cellSize, pixelsPerMeter),
               GridCols(canvasWidth, cellSize), GridRows(canvasHeight, cellSize),
               cellSize, pixelsPerMeter, NoMask, AntennaOf(ap))

ReflectionContext(ap, walls, doors, wall, canvasWidth, canvasHeight, cellSize, pixelsPerMeter) ==
    RunContext(mirrorPointAcrossLine(Pt(ap.x, ap.y), wall.start, wall.end), 1000 * ap.txPower,
               buildAttenuationGrid(WithoutWall(walls, wall), doors, canvasWidth, canvasHeight,
                                    cellSize, pixelsPerMeter),
               GridCols(canvasWidth, cellSize), GridRows(canvasHeight, cellSize),
               cellSize, pixelsPerMeter, ReflectionMask(ap, wall), OmniAntenna)

\* the merge loop: the reflected value replaces the main one when greater
MergeReflection(main, reflection) ==
    [signalGrid |-> [i \in DOMAIN main.signalGrid |->
                        IF reflection.signalGrid[i] > main.signalGrid[i]
                        THEN reflection.signalGrid[i] ELSE main.signalGrid[i]],
     distGrid |-> [i \in DOMAIN main.signalGrid |->
                        IF reflection.signalGrid[i] > main.signalGrid[i]
                        THEN reflection.distGrid[i] ELSE main.distGrid[i]]]

FieldOf(st) == [signalGrid |-> st.signalGrid, distGrid |-> st.distGrid]

RECURSIVE ReflectAll(_, _, _, _, _, _, _, _, _, _)
ReflectAll(main, toProcess, k, ap, walls, doors, canvasWidth, canvasHeight, cellSize, pixelsPerMeter) ==
    IF k > Len(toProcess) THEN main
    ELSE ReflectAll(MergeReflection(main,
                        FieldOf(runDijkstra(ReflectionContext(ap, walls, doors, toProcess[k],
                                    canvasWidth, canvasHeight, cellSize, pixelsPerMeter)))),
                    toProcess, k + 1, ap, walls, doors, canvasWidth, canvasHeight, cellSize, pixelsPerMeter)

propagateWave(ap, walls, doors, canvasWidth, canvasHeight, cellSize, pixelsPerMeter) ==
    ReflectAll(FieldOf(runDijkstra(DirectContext(ap, walls, doors, canvasWidth, canvasHeight,
                                                 cellSize, pixelsPerMeter))),
               WallsToProcess(ap, walls), 1, ap, walls, doors,
               canvasWidth, canvasHeight, cellSize, pixelsPerMeter)

\* ------------------------------------------------------------------------
\* computeCompositeHeatmap, the cache and self.onmessage
\* ------------------------------------------------------------------------

FloorGrid(size) == [i \in 0..(size - 1) |-> Floor]

InfinityGrid(size) == [i \in 0..(size - 1) |-> Infinity]

\* the merge loop of computeCompositeHeatmap
CompositeMerge(final, field) ==
    [signalGrid |-> [i \in DOMAIN final.signalGrid |->
                        IF field.signalGrid[i] > final.signalGrid[i]
                        THEN field.signalGrid[i] ELSE final.signalGrid[i]],
     minDistGrid |-> [i \in DOMAIN final.signalGrid |->
                        IF field.signalGrid[i] > final.signalGrid[i]
                        THEN field.distGrid[i] ELSE final.minDistGrid[i]]]

\* aps.forEach of computeCompositeHeatmap, from emitter k on
RECURSIVE CompositeFrom(_, _, _, _, _, _, _, _, _)
CompositeFrom(final, aps, k, walls, doors, width, height, cellSize, pixelsPerMeter) ==
    IF k > Len(aps) THEN final
    ELSE CompositeFrom(CompositeMerge(final, propagateWave(aps[k], walls, doors, width, height,
                                                           cellSize, pixelsPerMeter)),
                       aps, k + 1, walls, doors, width, height, cellSize, pixelsPerMeter)

\* the grids as new Float32Array leaves them: zero, never filled
InitialFinal_Unfilled(size) ==
    [signalGrid |-> [i \in 0..(size - 1) |-> 0], minDistGrid |-> [i \in 0..(size - 1) |-> 0]]

\* the grids before any emitter is merged
InitialFinal(size) == [signalGrid |-> FloorGrid(size), minDistGrid |-> InfinityGrid(size)]

\* the object computeCompositeHeatmap returns
CompositeResult(final, rows, cols) ==
    [signalGrid |-> final.signalGrid, minDistGrid |-> final.minDistGrid,
     rows |-> rows, cols |-> cols]

computeCompositeHeatmap(aps, walls, doors, width, height, cellSize, pixelsPerMeter) ==
    CompositeResult(CompositeFrom(InitialFinal(GridCols(width, cellSize) * GridRows(height, cellSize)),
                                  aps, 1, walls, doors, width, height, cellSize, pixelsPerMeter),
                    GridRows(height, cellSize), GridCols(width, cellSize))

\* a hash of the dimensions only
getEnvironmentHash_DimOnly(walls, doors, width, height, cellSize, pixelsPerMeter) ==
    << << width, height, cellSize, pixelsPerMeter >> >>

\* JSON.stringify of the listed properties: two environments have the same
\* hash exactly when these properties agree
getEnvironmentHash(walls, doors, width, height, cellSize, pixelsPerMeter) ==
    << Len(walls), Len(doors), << width, height, cellSize, pixelsPerMeter >>,
       [k \in 1..Len(walls) |-> << walls[k].id, walls[k].start, walls[k].end,
                                   walls[k].material, walls[k].thickness >>],
       [k \in 1..Len(doors) |-> << doors[k].id, doors[k].wallId, doors[k].ratio, doors[k].width >>] >>

\* a hash that leaves the position out
getApHash_NoPosition(ap) ==
    << ap.txPower, ap.isDirectional, ap.azimuth, ap.beamwidth, ap.frontToBackRatio >>

\* JSON.stringify of the listed properties; id and channel are not among them
getApHash(ap) ==
    << ap.x, ap.y, ap.txPower, ap.isDirectional, ap.azimuth, ap.beamwidth, ap.frontToBackRatio >>

\* a merge in which the last emitter wins
MergedSignal_LastWins(final, apSignal) ==
    [i \in DOMAIN final.signalGrid |-> apSignal[i]]

\* the merge loop of onmessage, signal: the emitter's value replaces the final
\* one when greater
MergedSignal(final, apSignal) ==
    [i \in DOMAIN final.signalGrid |->
        IF apSignal[i] > final.signalGrid[i] THEN apSignal[i] ELSE final.signalGrid[i]]

\* a merge that never updates the distance
MergedDistance_Kept(final, apSignal, apDist) ==
    [i \in DOMAIN final.signalGrid |-> final.minDistGrid[i]]

\* the merge loop of onmessage, distance: a replacing emitter brings its
\* distance
MergedDistance(final, apSignal, apDist) ==
    [i \in DOMAIN final.signalGrid |->
        IF apSignal[i] > final.signalGrid[i] THEN apDist[i] ELSE final.minDistGrid[i]]

\* a merge that copies the emitter's value into a cell still at the floor
MergeIntoFinal_CopyAtFloor(final, apSignal, apDist) ==
    [signalGrid |-> [i \in DOMAIN final.signalGrid |->
                        IF final.signalGrid[i] = Floor \/ apSignal[i] > final.signalGrid[i]
                        THEN apSignal[i] ELSE final.signalGrid[i]],
     minDistGrid |-> [i \in DOMAIN final.signalGrid |->
                        IF final.signalGrid[i] = Floor \/ apSignal[i] > final.signalGrid[i]
                        THEN apDist[i] ELSE final.minDistGrid[i]]]

\* the merge loop of onmessage
MergeIntoFinal(final, apSignal, apDist) ==
    [signalGrid |-> MergedSignal(final, apSignal),
     minDistGrid |-> MergedDistance(final, apSignal, apDist)]

\* apCache.get
CacheGet(cache, id) == IF id \in DOMAIN cache THEN cache[id] ELSE << >>

\* apCache.set
CacheSet(cache, id, entry) ==
    [key \in DOMAIN cache \cup {id} |-> IF key = id THEN << entry >> ELSE cache[key]]

\* history: served records, per requested emitter, whether its field came
\* from the cache and whether that field was stored before the last change
\* of environment (old); cache entries carry the same mark
NoteServed(log, ap, miss, entry) ==
    Append(log, [id |-> ap.id, hit |-> ~miss, old |-> entry.old])

\* a test that looks for an entry only and never compares the hash
IsMiss_IdOnly(cached, apHash) == cached = << >>

\* !cached || cached.hash !== apHash
IsMiss(cached, apHash) == cached = << >> \/ cached[1].hash # apHash

\* the entry saved on a miss
NewEntry(apHash, field) ==
    [hash |-> apHash, signalGrid |-> field.signalGrid, distGrid |-> field.distGrid, old |-> FALSE]

\* cached, after the miss branch
EntryFor(cached, ap, apHash, data) ==
    IF IsMiss(cached, apHash)
    THEN NewEntry(apHash, propagateWave(ap, data.walls, data.doors, data.width, data.height,
                                        data.cellSize, data.pixelsPerMeter))
    ELSE cached[1]

\* a merge that composes in place, in the grids of the first emitter's entry
AfterAp_ComposeInFirst(acc, ap, miss, entry) ==
    LET stored == IF miss THEN CacheSet(acc.cache, ap.id, entry) ELSE acc.cache
        merged == MergeIntoFinal(acc.final, entry.signalGrid, entry.distGrid)
        first == IF acc.log = << >> THEN ap.id ELSE acc.log[1].id
    IN  [cache |-> CacheSet(stored, first,
                            [stored[first][1] EXCEPT !.signalGrid = merged.signalGrid,
                                                     !.distGrid = merged.minDistGrid]),
         final |-> merged,
         log |-> NoteServed(acc.log, ap, miss, entry)]

\* the cache, the final grids and the log after one emitter
AfterAp(acc, ap, miss, entry) ==
    [cache |-> IF miss THEN CacheSet(acc.cache, ap.id, entry) ELSE acc.cache,
     final |-> MergeIntoFinal(acc.final, entry.signalGrid, entry.distGrid),
     log |-> NoteServed(acc.log, ap, miss, entry)]

\* the body of aps.forEach in onmessage
ProcessAp(acc, ap, data) ==
    AfterAp(acc, ap, IsMiss(CacheGet(acc.cache, ap.id), getApHash(ap)),
            EntryFor(CacheGet(acc.cache, ap.id), ap, getApHash(ap), data))

\* aps.forEach in onmessage, from emitter k on
RECURSIVE ProcessAps(_, _, _)
ProcessAps(acc, data, k) ==
    IF k > Len(data.aps) THEN acc
    ELSE ProcessAps(ProcessAp(acc, data.aps[k], data), data, k + 1)

\* what a compute request leaves behind: the cache, the hash and the message
\* posted
Handled(done, envHash, data) ==
    [apCache |-> done.cache,
     lastEnvironmentHash |-> envHash,
     posted |-> [signalGrid |-> done.final.signalGrid, minDistGrid |-> done.final.minDistGrid,
                 rows |-> GridRows(data.height, data.cellSize),
                 cols |-> GridCols(data.width, data.cellSize), id |-> data.id],
     log |-> done.log]

\* the check of the environment hash: a different hash clears the cache
CacheFor(cache, lastHash, envHash) == IF envHash # lastHash THEN << >> ELSE cache

\* onmessage once the environment hash of the request is known
HandleWithHash(cache, lastHash, envHash, data) ==
    Handled(ProcessAps([cache |-> CacheFor(cache, lastHash, envHash),
                        final |-> InitialFinal(GridCols(data.width, data.cellSize)
                                               * GridRows(data.height, data.cellSize)),
                        log |-> << >>],
                       data, 1),
            envHash, data)

\* self.onmessage for a compute request
onmessage(cache, lastHash, data) ==
    HandleWithHash(cache, lastHash,
                   getEnvironmentHash(data.walls, data.doors, data.width, data.height,
                                      data.cellSize, data.pixelsPerMeter),
                   data)

\* ------------------------------------------------------------------------
\* Specification SpecSolver: propagateWave on the scenes below
\* ------------------------------------------------------------------------

\* canvas of the solver scenes, in cells
SimCols == 5

SimRows == 5

SimWidth == SimCols * GRID_SIZE

SimHeight == SimRows * GRID_SIZE

OmniAp(id, x, y, txPower) ==
    [id |-> id, x |-> x, y |-> y, txPower |-> txPower, channel |-> 1,
     isDirectional |-> FALSE, azimuth |-> 0, beamwidth |-> 0, frontToBackRatio |-> 0]

DirectionalAp(id, x, y, txPower, azimuth, beamwidth, frontToBackRatio) ==
    [id |-> id, x |-> x, y |-> y, txPower |-> txPower, channel |-> 1,
     isDirectional |-> TRUE, azimuth |-> azimuth, beamwidth |-> beamwidth,
     frontToBackRatio |-> frontToBackRatio]

Wall(id, x1, y1, x2, y2, material, thickness) ==
    [id |-> id, start |-> Pt(x1, y1), end |-> Pt(x2, y2), material |-> material,
     thickness |-> thickness]

Door(id, wallId, ratio, width) == [id |-> id, wallId |-> wallId, ratio |-> ratio, width |-> width]

Scene(ap, walls, doors) == [ap |-> ap, walls |-> walls, doors |-> doors]

\* a vertical metal wall across the whole canvas at x = 30
SpanningMetal == Wall("m1", 30, 0, 30, SimHeight, "metal", 20)

\* eight short metal walls and one wooden wall around (25,25), the far ones first
ManyMetalWalls ==
    << Wall("m1", 45, 0, 45, 10, "metal", 20),
       Wall("m2", 40, 40, 50, 40, "metal", 20),
       Wall("m3", 0, 45, 10, 45, "metal", 20),
       Wall("w1", 20, 30, 30, 30, "wood", 12),
       Wall("m4", 5, 0, 5, 10, "metal", 20),
       Wall("m5", 35, 25, 35, 30, "metal", 20),
       Wall("m6", 10, 30, 20, 40, "metal", 20),
       Wall("m7", 15, 20, 15, 30, "metal", 20),
       Wall("m8", 20, 15, 30, 15, "metal", 20) >>

SolverScenes ==
    { Scene(OmniAp("ap1", 25, 25, 20), << >>, << >>),
      Scene(OmniAp("ap1", 5, 5, 20), << Wall("w1", 0, 20, SimWidth, 20, "wood", 12) >>, << >>),
      Scene(OmniAp("ap1", 15, 25, 20), << SpanningMetal >>, << >>),
      Scene(OmniAp("ap1", 25, 25, 20), << SpanningMetal >>, << >>),
      Scene(OmniAp("ap1", 5, 25, 18),
            << Wall("w1", 20, 0, 20, SimHeight, "drywall", 12) >>, << Door("d1", "w1", 50, 40) >>),
      Scene(DirectionalAp("ap1", 25, 25, 20, 90, 90, 25), << >>, << >>),
      Scene(OmniAp("ap1", -5, 25, 20), << SpanningMetal >>, << >>),
      Scene(OmniAp("ap1", 12, 38, 23),
            << SpanningMetal, Wall("m2", 0, 10, SimWidth, 10, "metal", 20),
               Wall("w1", 0, 40, 20, 40, "glass", 12) >>, << >>),
      Scene(OmniAp("ap1", 20, 20, 20), << >>, << >>),
      Scene(OmniAp("ap1", -5, 25, 20), << Wall("w1", 10, 0, 10, SimHeight, "metal", 20) >>, << >>),
      Scene(DirectionalAp("ap1", 45, 45, -60, 350, 30, 20),
            << Wall("w1", 0, 20, SimWidth, 20, "drywall", 12) >>, << >>),
      Scene(OmniAp("ap1", 25, 25, 20), ManyMetalWalls, << >>) }

NoField == [signalGrid |-> << >>, distGrid |-> << >>]

StartReflection(k) ==
    LET wall == WallsToProcess(scene.ap, scene.walls)[k]
        ctx == ReflectionContext(scene.ap, scene.walls, scene.doors, wall,
                                 SimWidth, SimHeight, GRID_SIZE, DEFAULT_PIXELS_PER_METER)
    IN  /\ pc' = "refl"
        /\ reflIdx' = k
        /\ runCtx' = ctx
        /\ run' = DijkstraStart(ctx)

\* the parts of the state a specification does not use stay as they are here
IdleSolver ==
    /\ scene = Scene(OmniAp("none", 0, 0, 0), << >>, << >>)
    /\ pc = "idle"
    /\ run = << >>
    /\ runCtx = << >>
    /\ mainField = NoField
    /\ reflIdx = 0

IdleRaster ==
    /\ rasterWalls = << >>
    /\ rasterDoors = << >>
    /\ rasterGrid = << >>
    /\ rasterWall = 0
    /\ rasterStep = 0

IdleEditor ==
    /\ calculationIdRef = 0
    /\ apsCount = 0
    /\ sceneVersion = 0
    /\ draggedApId = "null"
    /\ toWorker = << >>
    /\ toEditor = << >>
    /\ signalGridRef = << >>
    /\ receivedId = 0

IdleWorker ==
    /\ warmedUp = FALSE
    /\ apCache = << >>
    /\ lastEnvironmentHash = << >>
    /\ posted = << >>
    /\ received = << >>
    /\ served = << >>

IdleQueue ==
    /\ pqHeap = << >>
    /\ pqReturned = [called |-> FALSE, value |-> << >>]

IdleScene ==
    /\ editorWalls = << >>
    /\ editorDoors = << >>
    /\ editorAps = << >>
    /\ selectedEntity = << >>
    /\ uuidCount = 0

IdleMirror ==
    /\ mirrorArgs = << >>
    /\ virtualAPPos = << >>

IdleUnit ==
    /\ above = {}
    /\ IdleQueue
    /\ IdleScene
    /\ IdleMirror

InitSolver ==
    /\ IdleEditor
    /\ IdleRaster
    /\ IdleWorker
    /\ IdleUnit
    /\ scene \in SolverScenes
    /\ pc = "main"
    /\ runCtx = DirectContext(scene.ap, scene.walls, scene.doors,
                              SimWidth, SimHeight, GRID_SIZE, DEFAULT_PIXELS_PER_METER)
    /\ run = DijkstraStart(runCtx)
    /\ mainField = NoField
    /\ reflIdx = 0

\* one iteration of runDijkstra's while loop
SolverStep ==
    /\ pc \in {"main", "refl"}
    /\ Len(run.heap) > 0
    /\ run' = DijkstraStep(run, runCtx)
    /\ UNCHANGED << scene, pc, runCtx, mainField, reflIdx >>
    /\ UNCHANGED rasterVars
    /\ UNCHANGED workerVars
    /\ UNCHANGED editorVars
    /\ UNCHANGED unitVars

\* the direct run returns; the reflections start or propagateWave returns
FinishDirect ==
    /\ pc = "main"
    /\ Len(run.heap) = 0
    /\ mainField' = FieldOf(run)
    /\ IF Len(WallsToProcess(scene.ap, scene.walls)) > 0
       THEN StartReflection(1)
       ELSE pc' = "done" /\ UNCHANGED << run, runCtx, reflIdx >>
    /\ UNCHANGED scene
    /\ UNCHANGED rasterVars
    /\ UNCHANGED workerVars
    /\ UNCHANGED editorVars
    /\ UNCHANGED unitVars

\* a reflection run returns and is merged; the next one starts or
\* propagateWave returns
FinishReflection ==
    /\ pc = "refl"
    /\ Len(run.heap) = 0
    /\ mainField' = MergeReflection(mainField, FieldOf(run))
    /\ IF reflIdx < Len(WallsToProcess(scene.ap, scene.walls))
       THEN StartReflection(reflIdx + 1)
       ELSE pc' = "done" /\ UNCHANGED << run, runCtx, reflIdx >>
    /\ UNCHANGED scene
    /\ UNCHANGED rasterVars
    /\ UNCHANGED workerVars
    /\ UNCHANGED editorVars
    /\ UNCHANGED unitVars

NextSolver == SolverStep \/ FinishDirect \/ FinishReflection

SpecSolver == InitSolver /\ [][NextSolver]_vars

\* the stepwise run and the operator agree
SolverAgrees ==
    pc = "done" => mainField = propagateWave(scene.ap, scene.walls, scene.doors,
                                        SimWidth, SimHeight, GRID_SIZE, DEFAULT_PIXELS_PER_METER)

\* ------------------------------------------------------------------------
\* Grid paths: what the best 8-connected path to each cell can achieve
\* ------------------------------------------------------------------------

StartCol(ctx) == ctx.startPoint.x \div (ctx.startPoint.den * ctx.cellSize)

StartRow(ctx) == ctx.startPoint.y \div (ctx.startPoint.den * ctx.cellSize)

StartInGrid(ctx) ==
    StartCol(ctx) >= 0 /\ StartCol(ctx) < ctx.cols /\ StartRow(ctx) >= 0 /\ StartRow(ctx) < ctx.rows

StartIdx(ctx) == StartRow(ctx) * ctx.cols + StartCol(ctx)

Cells(ctx) == 0..(ctx.cols * ctx.rows - 1)

\* a path is summarised by the pair << length, wall loss >>; a pair is kept
\* only when no other pair of the cell is at most as long with at most as
\* much wall loss (the loss of a path end grows with both)
Undominated(S) ==
    { l \in S : \A m \in S : (m[1] <= l[1] /\ m[2] <= l[2]) => m = l }

\* the pairs of the paths that enter cell from a neighbour
StepsInto(ctx, labels, cell) ==
    LET r == cell \div ctx.cols
        c == cell % ctx.cols
    IN  IF cell = StartIdx(ctx) \/ ~MaskAllows(ctx.mask, c, r, ctx.cellSize) THEN {}
        ELSE UNION { LET pr == r - Directions[k].dr
                         pc0 == c - Directions[k].dc
                     IN  IF pr >= 0 /\ pr < ctx.rows /\ pc0 >= 0 /\ pc0 < ctx.cols
                         THEN { << l[1] + Directions[k].dist,
                                   l[2] + StepWallLoss(ctx.attenuationGrid[cell], Directions[k].dist,
                                                       ctx.cellSize, ctx.pixelsPerMeter) >> :
                                l \in labels[pr * ctx.cols + pc0] }
                         ELSE {} : k \in 1..Len(Directions) }

RECURSIVE PathLabelsFrom(_, _)
PathLabelsFrom(ctx, labels) ==
    LET next == [cell \in Cells(ctx) |-> Undominated(labels[cell] \cup StepsInto(ctx, labels, cell))]
    IN  IF next = labels THEN labels ELSE PathLabelsFrom(ctx, next)

\* for every cell, the undominated pairs of all grid paths from the start
\* cell that stay inside the mask
PathLabels(ctx) ==
    PathLabelsFrom(ctx, [cell \in Cells(ctx) |-> IF cell = StartIdx(ctx) THEN {<< 0, 0 >>} ELSE {}])

\* the least total loss over the paths to cell (the empty path to the start
\* cell has none)
LeastLoss(ctx, labels, cell) ==
    IF cell = StartIdx(ctx) THEN 0
    ELSE LET losses == { TotalLossAt(ctx, cell \div ctx.cols, cell % ctx.cols, l[1], l[2]) : l \in labels[cell] }
         IN  CHOOSE x \in losses : \A y \in losses : x <= y

\* a runDijkstra call has returned in this state
Returned == pc \in {"main", "refl"} /\ Len(run.heap) = 0

\* C4: when runDijkstra returns, every cell's signal is the maximum over all
\* grid paths inside the mask of the source signal minus the path's total
\* loss (stated for the cells that a path reaches above the -120 floor).
C4_PathOptimal ==
    (Returned /\ StartInGrid(runCtx)) =>
        LET labels == PathLabels(runCtx)
        IN  \A cell \in Cells(runCtx) :
                (labels[cell] # {} /\ runCtx.startSignal - LeastLoss(runCtx, labels, cell) > Floor)
                    => run.signalGrid[cell] = runCtx.startSignal - LeastLoss(runCtx, labels, cell)

\* the four corners of the cell lie strictly on the side of the wall's line
\* opposite to p
FarSide(cell, cols, cellSize, wall, p) ==
    LET r == cell \div cols
        c == cell % cols
        side == getSideOfLine(wall.start, wall.end, p)
    IN  /\ side # 0
        /\ \A cx \in {c * cellSize, (c + 1) * cellSize}, cy \in {r * cellSize, (r + 1) * cellSize} :
               getSideOfLine(wall.start, wall.end, Pt(cx, cy)) = -side

\* the scene is one emitter inside the canvas and one door-less metal wall
\* that runs from one canvas edge to the opposite one
SingleSpanningMetal ==
    /\ Len(scene.walls) = 1
    /\ scene.doors = << >>
    /\ scene.walls[1].material = "metal"
    /\ scene.ap.x >= 0 /\ scene.ap.x < SimWidth /\ scene.ap.y >= 0 /\ scene.ap.y < SimHeight
    /\ \/ scene.walls[1].start.x = scene.walls[1].end.x
          /\ {scene.walls[1].start.y, scene.walls[1].end.y} = {0, SimHeight}
       \/ scene.walls[1].start.y = scene.walls[1].end.y
          /\ {scene.walls[1].start.x, scene.walls[1].end.x} = {0, SimWidth}

\* C5: one emitter, one spanning door-less metal wall: the field returned by
\* propagateWave is at or below the floor at every cell on the far side.
C5_MetalOpaque ==
    (pc = "done" /\ SingleSpanningMetal) =>
        \A cell \in DOMAIN mainField.signalGrid :
            FarSide(cell, SimCols, GRID_SIZE, scene.walls[1], Pt(scene.ap.x, scene.ap.y))
                => mainField.signalGrid[cell] <= Floor

\* C7: the reflected field is above the floor at every cell on the emitter's
\* side when no cell carries attenuation once the reflecting wall is excluded
\* (then none between the virtual source and the cell does).
C7_ReflectionReaches ==
    (pc = "refl" /\ Len(run.heap) = 0 /\ StartInGrid(runCtx)
        /\ \A idx \in Cells(runCtx) : runCtx.attenuationGrid[idx] = 0) =>
        \A cell \in Cells(runCtx) :
            MaskAllows(runCtx.mask, cell % runCtx.cols, cell \div runCtx.cols, runCtx.cellSize)
                => run.signalGrid[cell] > Floor

\* the squared distance from the start point to the centre of a cell, in
\* half pixels
CentreDistSq(ctx, cell) ==
    LET dx2 == 2 * (cell % ctx.cols) * ctx.cellSize + ctx.cellSize
               - TwiceCoord(ctx.startPoint.x, ctx.startPoint.den)
        dy2 == 2 * (cell \div ctx.cols) * ctx.cellSize + ctx.cellSize
               - TwiceCoord(ctx.startPoint.y, ctx.startPoint.den)
    IN  dx2 * dx2 + dy2 * dy2

\* the direct run of an omnidirectional emitter in a scene without walls
\* has returned
OpenSpaceReturned ==
    /\ pc = "main"
    /\ Len(run.heap) = 0
    /\ scene.walls = << >>
    /\ ~runCtx.antennaProps.isDirectional

\* C11: single omnidirectional emitter, no walls: for every two cells a and
\* b, if the centre of a is at most as far from the emitter's position as
\* the centre of b, the signal at a is at least the signal at b.
C11_MonotoneInDistance ==
    OpenSpaceReturned =>
        \A a, b \in Cells(runCtx) :
            CentreDistSq(runCtx, a) <= CentreDistSq(runCtx, b)
                => run.signalGrid[a] >= run.signalGrid[b]

\* C15: in a solver run with a cell mask, every cell whose returned signal
\* differs from the floor satisfies the mask (in a reflection run: lies on
\* the real emitter's side of the reflecting wall's line).
C15_NonFloorInsideMask ==
    (Returned /\ runCtx.mask.on) =>
        \A cell \in Cells(runCtx) :
            run.signalGrid[cell] # Floor
                => MaskAllows(runCtx.mask, cell % runCtx.cols, cell \div runCtx.cols, runCtx.cellSize)

\* C16: when runDijkstra returns, every cell has a signal above -120 with a
\* finite distance, or signal -120 with distance Infinity; no cell holds a
\* signal below -120 or a floor signal with a finite distance.
C16_FloorOrReached ==
    Returned =>
        \A cell \in Cells(runCtx) :
            \/ run.signalGrid[cell] > Floor /\ run.distGrid[cell] < Infinity
            \/ run.signalGrid[cell] = Floor /\ run.distGrid[cell] = Infinity

\* the emitter's position maps to a cell outside the grid
EmitterOutsideGrid ==
    LET startCol == scene.ap.x \div GRID_SIZE
        startRow == scene.ap.y \div GRID_SIZE
    IN  startCol < 0 \/ startCol >= SimCols \/ startRow < 0 \/ startRow >= SimRows

\* C12: when the emitter's position maps to a cell outside the grid, the
\* field propagateWave returns for it (direct field plus reflections) is
\* -120 at every cell, whatever the walls.
C12_OutsideGridAllFloor ==
    (pc = "done" /\ EmitterOutsideGrid) =>
        \A cell \in DOMAIN mainField.signalGrid : mainField.signalGrid[cell] = Floor

\* the smallest angle between the direction from the start point to the
\* centre of the cell and the boresight (azimuth 0 = up, clockwise), in
\* thousandths of a degree, in 0..180000
BoresightAngle(ctx, cell) ==
    LET dx2 == 2 * (cell % ctx.cols) * ctx.cellSize + ctx.cellSize
               - TwiceCoord(ctx.startPoint.x, ctx.startPoint.den)
        dy2 == 2 * (cell \div ctx.cols) * ctx.cellSize + ctx.cellSize
               - TwiceCoord(ctx.startPoint.y, ctx.startPoint.den)
        turn == (Atan2Deg(dy2, dx2) - 1000 * (ctx.antennaProps.azimuth - 90)) % 360000
    IN  Min(turn, 360000 - turn)

\* the part of the loss recorded for a cell that is neither the FSPL term
\* nor wall loss: the directional penalty the run applied to it
RecordedPenalty(st, ctx, cell) ==
    st.totalLossState[cell]
        - TotalLossAt([ctx EXCEPT !.antennaProps = OmniAntenna], cell \div ctx.cols, cell % ctx.cols,
                      st.distState[cell], st.wallLossState[cell])

\* the cells for which the run recorded a computed loss
Relaxed(st, ctx) ==
    { cell \in Cells(ctx) : cell # StartIdx(ctx) /\ st.totalLossState[cell] < Infinity }

\* C18: directional emitter with azimuth in [0, 360) and beamwidth b: the
\* loss computed for a cell includes the frontToBackRatio penalty if and
\* only if the smallest angle between the direction from the emitter to the
\* cell's centre and the boresight is greater than b / 2.
C18_PenaltyOutsideBeam ==
    (Returned /\ runCtx.antennaProps.isDirectional /\ StartInGrid(runCtx)
        /\ runCtx.antennaProps.azimuth >= 0 /\ runCtx.antennaProps.azimuth < 360) =>
        \A cell \in Relaxed(run, runCtx) :
            RecordedPenalty(run, runCtx, cell) = 1000 * runCtx.antennaProps.frontToBackRatio
                <=> BoresightAngle(runCtx, cell) > 500 * runCtx.antennaProps.beamwidth

\* the cell the next iteration of the while loop dequeues
NextDequeued == run.heap[1].element

\* the candidates of the next iteration that replace the neighbour's
\* recorded state: in the grid, inside the mask, below the recorded loss
AcceptedCandidates ==
    LET currentIdx == NextDequeued
    IN  { cand \in { Candidate(runCtx, run.wallLossState[currentIdx], run.distState[currentIdx],
                               (currentIdx \div runCtx.cols) + Directions[k].dr,
                               (currentIdx % runCtx.cols) + Directions[k].dc, Directions[k]) :
                     k \in { j \in 1..Len(Directions) :
                               LET nr == (currentIdx \div runCtx.cols) + Directions[j].dr
                                   nc == (currentIdx % runCtx.cols) + Directions[j].dc
                               IN  /\ nr >= 0 /\ nr < runCtx.rows /\ nc >= 0 /\ nc < runCtx.cols
                                   /\ MaskAllows(runCtx.mask, nc, nr, runCtx.cellSize) } } :
          cand.newTotalLoss < run.totalLossState[cand.newIdx] }

\* C19: whenever runDijkstra relaxes a neighbour from a dequeued cell, the
\* candidate total loss of the neighbour is at least the recorded total loss
\* of the dequeued cell.
C19_LossNeverDecreases ==
    (pc \in {"main", "refl"} /\ Len(run.heap) > 0 /\ Expands(run.signalGrid[NextDequeued])) =>
        \A cand \in AcceptedCandidates :
            cand.newTotalLoss >= run.totalLossState[NextDequeued]

\* one iteration of the while loop without the guard currentSignal <= -120:
\* every dequeued cell is expanded
DijkstraStepNoSkip(st, ctx) ==
    LET currentIdx == st.heap[1].element
    IN  RelaxAll([st EXCEPT !.heap = dequeue(st.heap)], ctx, currentIdx,
                 st.wallLossState[currentIdx], st.distState[currentIdx], 1)

RECURSIVE DijkstraLoopNoSkip(_, _)
DijkstraLoopNoSkip(st, ctx) ==
    IF Len(st.heap) = 0 THEN st ELSE DijkstraLoopNoSkip(DijkstraStepNoSkip(st, ctx), ctx)

\* runDijkstra without that guard
runDijkstraNoSkip(ctx) == DijkstraLoopNoSkip(DijkstraStart(ctx), ctx)

\* C20: skipping the expansion of dequeued cells at or below -120 does not
\* change the result: every cell whose final signal is above -120 has the
\* signal it has in a run of the same solver without the skip.
C20_SkipChangesNothing ==
    Returned =>
        LET reference == runDijkstraNoSkip(runCtx).signalGrid
        IN  \A cell \in Cells(runCtx) :
                run.signalGrid[cell] > Floor => run.signalGrid[cell] = reference[cell]

\* ------------------------------------------------------------------------
\* Specification SpecRaster: buildAttenuationGrid on the wall sets below
\* ------------------------------------------------------------------------

RasterInputs ==
    { [walls |-> << Wall("w1", 0, 25, SimWidth, 25, "drywall", 12) >>,
       doors |-> << Door("d1", "w1", 50, 20) >>],
      [walls |-> << Wall("w1", 0, 25, SimWidth, 25, "drywall", 12) >>,
       doors |-> << Door("d1", "w1", 50, 40) >>],
      [walls |-> << Wall("w1", 20, 0, 20, SimHeight, "metal", 20) >>, doors |-> << >>],
      [walls |-> << Wall("w1", 20, 0, 20, SimHeight, "metal", 12) >>, doors |-> << >>],
      [walls |-> << Wall("w1", 5, 5, 45, 35, "brick", 12) >>, doors |-> << >>],
      [walls |-> << Wall("w1", 0, 45, 30, 45, "concrete", 0) >>,
       doors |-> << Door("d1", "w1", 30, 30) >>],
      [walls |-> << Wall("w1", 10, 0, 10, SimHeight, "metal", 20),
                    Wall("w2", 0, 40, SimWidth, 40, "glass", 12),
                    Wall("w3", 40, 10, 40, 10, "wood", 12) >>,
       doors |-> << Door("d1", "w2", 40, 20) >>],
      [walls |-> << Wall("w1", 5, 25, 45, 25, "glass", 12),
                    Wall("w2", 45, 35, 45, 45, "concrete", 12) >>, doors |-> << >>],
      [walls |-> << Wall("w1", 5, 45, 40, 10, "wood", 12) >>, doors |-> << >>] }

InitRaster ==
    /\ IdleEditor
    /\ IdleSolver
    /\ IdleWorker
    /\ IdleUnit
    /\ \E input \in RasterInputs : rasterWalls = input.walls /\ rasterDoors = input.doors
    /\ rasterGrid = EmptyGrid(SimCols, SimRows)
    /\ rasterWall = 1
    /\ rasterStep = 0

\* one iteration of the sample loop of the current wall
StampNext ==
    /\ rasterWall >= 1 /\ rasterWall <= Len(rasterWalls)
    /\ rasterStep <= SampleSteps(rasterWalls[rasterWall], GRID_SIZE)
    /\ rasterGrid' = StampSample(rasterGrid, rasterWalls[rasterWall], rasterDoors, rasterStep,
                                 SimCols, SimRows, GRID_SIZE, DEFAULT_PIXELS_PER_METER)
    /\ rasterStep' = rasterStep + 1
    /\ UNCHANGED << rasterWalls, rasterDoors, rasterWall >>
    /\ UNCHANGED solverVars
    /\ UNCHANGED workerVars
    /\ UNCHANGED editorVars
    /\ UNCHANGED unitVars

\* the sample loop of the current wall ends; on to the next wall
NextWall ==
    /\ rasterWall >= 1 /\ rasterWall <= Len(rasterWalls)
    /\ rasterStep > SampleSteps(rasterWalls[rasterWall], GRID_SIZE)
    /\ rasterWall' = rasterWall + 1
    /\ rasterStep' = 0
    /\ UNCHANGED << rasterWalls, rasterDoors, rasterGrid >>
    /\ UNCHANGED solverVars
    /\ UNCHANGED workerVars
    /\ UNCHANGED editorVars
    /\ UNCHANGED unitVars

NextRaster == StampNext \/ NextWall

SpecRaster == InitRaster /\ [][NextRaster]_vars

\* buildAttenuationGrid has returned
RasterDone == rasterWall > Len(rasterWalls) /\ rasterWall >= 1

\* the stepwise build and the operator agree
RasterAgrees ==
    RasterDone => rasterGrid = buildAttenuationGrid(rasterWalls, rasterDoors, SimWidth, SimHeight,
                                                    GRID_SIZE, DEFAULT_PIXELS_PER_METER)

\* the cell that holds the point at the given percentage of the wall's length
CellAtRatio(wall, ratio, cols, cellSize) ==
    LET col == (100 * wall.start.x + (wall.end.x - wall.start.x) * ratio) \div (100 * cellSize)
        row == (100 * wall.start.y + (wall.end.y - wall.start.y) * ratio) \div (100 * cellSize)
    IN  row * cols + col

\* C6: a wall with one door at least two cells wide: the cell on the wall's
\* line at the door's centre has attenuation 0 in the grid built from that
\* wall alone.
C6_DoorCentreClear ==
    (RasterDone /\ Len(rasterWalls) = 1 /\ Len(rasterDoors) = 1
        /\ rasterDoors[1].wallId = rasterWalls[1].id
        /\ rasterDoors[1].width >= 2 * GRID_SIZE) =>
        rasterGrid[CellAtRatio(rasterWalls[1], rasterDoors[1].ratio, SimCols, GRID_SIZE)] = 0

\* the walls whose sample loop has started
WallsSoFar == 1..Min(rasterWall, Len(rasterWalls))

\* density d is, to the milli-dB per metre, factor * materialLoss divided by
\* the wall's thickness in metres
IsDensityOf(d, wall, factor) ==
    LET exact == factor * MATERIAL_ATTENUATION(wall.material) * 1000 * DEFAULT_PIXELS_PER_METER
        thickness == IF wall.thickness = 0 THEN 12 ELSE wall.thickness
    IN  d * thickness <= exact /\ exact < (d + 1) * thickness

Centre2(idx) ==
    Pt((2 * (idx % SimCols) + 1) * GRID_SIZE, (2 * (idx \div SimCols) + 1) * GRID_SIZE)

\* the side of the wall's line the centre of a cell lies on: 1, -1, or 0 on the line
SideOfWall(wall, idx) ==
    LET cross == (wall.end.x - wall.start.x) * (Centre2(idx).y - 2 * wall.start.y)
                 - (wall.end.y - wall.start.y) * (Centre2(idx).x - 2 * wall.start.x)
    IN  IF cross > 0 THEN 1 ELSE IF cross < 0 THEN -1 ELSE 0

\* the centre of the cell projects onto the wall's line between the ends
BetweenEnds(wall, idx) ==
    LET along == (Centre2(idx).x - 2 * wall.start.x) * (wall.end.x - wall.start.x)
                 + (Centre2(idx).y - 2 * wall.start.y) * (wall.end.y - wall.start.y)
    IN  along >= 0 /\ along <= 2 * LengthSq(wall)

\* two different cells that touch by a side or a corner
Adjacent8(c, d) ==
    /\ c # d
    /\ Abs((c % SimCols) - (d % SimCols)) <= 1
    /\ Abs((c \div SimCols) - (d \div SimCols)) <= 1

\* the cells an 8-connected path through the allowed cells reaches
RECURSIVE Flood(_, _)
Flood(reached, allowed) ==
    LET more == { c \in allowed \ reached : \E d \in reached : Adjacent8(c, d) }
    IN  IF more = {} THEN reached ELSE Flood(reached \cup more, allowed)

\* no 8-connected path through the open cells between the wall's ends goes
\* from one side of the wall to the other
NoPathAcross(wall, open) ==
    LET band == { idx \in open : BetweenEnds(wall, idx) }
        from == { idx \in band : SideOfWall(wall, idx) = 1 }
    IN  \A idx \in Flood(from, band) : SideOfWall(wall, idx) # -1

\* a wall of non-zero length without doors whose ends lie on the canvas
DoorlessWallInside(wall) ==
    /\ wall.start # wall.end
    /\ \A k \in 1..Len(rasterDoors) : rasterDoors[k].wallId # wall.id
    /\ \A p \in {wall.start, wall.end} :
           p.x >= 0 /\ p.x <= SimWidth /\ p.y >= 0 /\ p.y <= SimHeight

\* C24 as stated: for a door-less wall of non-zero length inside the grid,
\* every 8-connected cell path from one side of the wall segment to the
\* other that stays between the segment's ends contains a cell holding
\* that wall's attenuation density.
C24_PathMeetsWallDensity ==
    RasterDone =>
        \A k \in 1..Len(rasterWalls) :
            DoorlessWallInside(rasterWalls[k]) =>
                NoPathAcross(rasterWalls[k],
                             { idx \in DOMAIN rasterGrid :
                                 rasterGrid[idx]
                                     # AttenuationDensity(rasterWalls[k], DEFAULT_PIXELS_PER_METER) })

\* C24 amended: every such path contains a cell whose density is at least
\* that wall's attenuation density (a denser wall stamped over the same
\* cell leaves its own, larger density there).
C24_PathMeetsBarrier ==
    RasterDone =>
        \A k \in 1..Len(rasterWalls) :
            DoorlessWallInside(rasterWalls[k]) =>
                NoPathAcross(rasterWalls[k],
                             { idx \in DOMAIN rasterGrid :
                                 rasterGrid[idx]
                                     < AttenuationDensity(rasterWalls[k], DEFAULT_PIXELS_PER_METER) })

\* the build is over for a door-less wall that has cells on both of its
\* sides between its ends, cells that hold its density, and a cell between
\* its ends where a denser wall has left a larger density
C24_Witness ==
    /\ RasterDone
    /\ \E k \in 1..Len(rasterWalls) :
           LET wall == rasterWalls[k]
               density == AttenuationDensity(wall, DEFAULT_PIXELS_PER_METER)
           IN  /\ DoorlessWallInside(wall)
               /\ density > 0
               /\ \E a, b \in DOMAIN rasterGrid :
                      /\ BetweenEnds(wall, a) /\ SideOfWall(wall, a) = 1
                      /\ BetweenEnds(wall, b) /\ SideOfWall(wall, b) = -1
                      /\ rasterGrid[a] = 0 /\ rasterGrid[b] = 0
               /\ \E idx \in DOMAIN rasterGrid : rasterGrid[idx] = density
               /\ \E idx \in DOMAIN rasterGrid :
                      BetweenEnds(wall, idx) /\ rasterGrid[idx] > density

\* the wall whose sample loop is running has its start equal to its end
ZeroLengthWallRunning ==
    /\ rasterWall >= 1 /\ rasterWall <= Len(rasterWalls)
    /\ rasterWalls[rasterWall].start = rasterWalls[rasterWall].end

\* C14: a wall whose start equals its end leaves the grid as it was, and no
\* iteration of its sample loop divides by zero: whenever the loop body runs
\* for such a wall, the divisor steps of t = i / steps is not 0.
C14_ZeroLengthWallNoOp ==
    [][(StampNext /\ ZeroLengthWallRunning) =>
           /\ rasterGrid' = rasterGrid
           /\ SampleSteps(rasterWalls[rasterWall], GRID_SIZE) # 0]_vars

\* ------------------------------------------------------------------------
\* Specification SpecWorker: the worker handling WARMUP and compute requests
\* ------------------------------------------------------------------------

\* canvas of the worker's requests, in cells
WorkerCols == 3

WorkerRows == 2

WorkerWidth == WorkerCols * GRID_SIZE

WorkerHeight == WorkerRows * GRID_SIZE

Environment(walls, doors, width, height, cellSize, pixelsPerMeter) ==
    [walls |-> walls, doors |-> doors, width |-> width, height |-> height,
     cellSize |-> cellSize, pixelsPerMeter |-> pixelsPerMeter]

WorkerEnvironments ==
    { Environment(<< >>, << >>, WorkerWidth, WorkerHeight, GRID_SIZE, DEFAULT_PIXELS_PER_METER),
      Environment(<< Wall("w1", 20, 0, 20, WorkerHeight, "metal", 20) >>, << >>,
                  WorkerWidth, WorkerHeight, GRID_SIZE, DEFAULT_PIXELS_PER_METER),
      Environment(<< Wall("w1", 20, 0, 20, WorkerHeight, "drywall", 12) >>,
                  << Door("d1", "w1", 50, 20) >>,
                  WorkerWidth, WorkerHeight, GRID_SIZE, DEFAULT_PIXELS_PER_METER),
      Environment(<< Wall("w1", 20, 0, 20, WorkerHeight, "concrete", 12) >>, << >>,
                  WorkerWidth, WorkerHeight, GRID_SIZE, DEFAULT_PIXELS_PER_METER \div 2) }

\* emitter "a" as placed, moved, and retuned to another channel; emitter "b"
WorkerApLists ==
    { << >>,
      << OmniAp("a", 5, 5, 20) >>,
      << OmniAp("a", 25, 15, 20) >>,
      << [OmniAp("a", 5, 5, 20) EXCEPT !.channel = 6], OmniAp("b", 15, 15, 18) >> }

WorkerIds == {1, 2}

Request(id, aps, env) ==
    [id |-> id, aps |-> aps, walls |-> env.walls, doors |-> env.doors, width |-> env.width,
     height |-> env.height, cellSize |-> env.cellSize, pixelsPerMeter |-> env.pixelsPerMeter]

EnvironmentOf(data) ==
    Environment(data.walls, data.doors, data.width, data.height, data.cellSize, data.pixelsPerMeter)

\* history: every entry now in the cache was stored before a change of
\* environment
MarkOld(cache) == [id \in DOMAIN cache |-> << [cache[id][1] EXCEPT !.old = TRUE] >>]

InitWorker ==
    /\ IdleSolver
    /\ IdleEditor
    /\ IdleRaster
    /\ IdleWorker
    /\ IdleUnit

\* a WARMUP that notes the environment of its dummy computation
WorkerWarmup_NotesEnvironment ==
    /\ warmedUp' = TRUE
    /\ lastEnvironmentHash' = getEnvironmentHash(<< >>, << >>, 100, 100, 10, DEFAULT_PIXELS_PER_METER)
    /\ UNCHANGED << apCache, posted, received, served >>
    /\ UNCHANGED << solverVars, rasterVars, editorVars >>
    /\ UNCHANGED unitVars

\* onmessage, data.type = 'WARMUP': the result of the dummy computation is
\* thrown away, nothing is posted or stored
WorkerWarmup ==
    /\ warmedUp' = TRUE
    /\ UNCHANGED << apCache, lastEnvironmentHash, posted, received, served >>
    /\ UNCHANGED << solverVars, rasterVars, editorVars >>
    /\ UNCHANGED unitVars

\* onmessage, a compute request
WorkerCompute ==
    /\ warmedUp
    /\ \E id \in WorkerIds, aps \in WorkerApLists, env \in WorkerEnvironments :
           LET data == Request(id, aps, env)
               envChanged == received # << >> /\ EnvironmentOf(received[1]) # env
           IN  \E out \in { onmessage(IF envChanged THEN MarkOld(apCache) ELSE apCache,
                                      lastEnvironmentHash, data) } :
               /\ apCache' = out.apCache
               /\ lastEnvironmentHash' = out.lastEnvironmentHash
               /\ posted' = << out.posted >>
               /\ received' = << data >>
               /\ served' = << [aps |-> out.log, envChanged |-> envChanged,
                                before |-> DOMAIN apCache] >>
    /\ UNCHANGED warmedUp
    /\ UNCHANGED << solverVars, rasterVars, editorVars >>
    /\ UNCHANGED unitVars

NextWorker == WorkerWarmup \/ WorkerCompute

SpecWorker == InitWorker /\ [][NextWorker]_vars

\* the request and the message of the last exchange
LastRequest == received[1]

LastPosted == posted[1]

\* C2: the grids (and dimensions) posted for a request are those the
\* uncached computeCompositeHeatmap returns for that request's inputs alone,
\* whatever was requested before.
C2_CacheTransparent ==
    posted # << >> =>
        LET data == LastRequest
            fresh == computeCompositeHeatmap(data.aps, data.walls, data.doors, data.width,
                                             data.height, data.cellSize, data.pixelsPerMeter)
        IN  /\ LastPosted.signalGrid = fresh.signalGrid
            /\ LastPosted.minDistGrid = fresh.minDistGrid
            /\ LastPosted.rows = fresh.rows
            /\ LastPosted.cols = fresh.cols

\* a response that took one emitter's field from the cache and computed the
\* other
C2_Witness ==
    /\ posted # << >>
    /\ \E k \in 1..Len(served[1].aps) : served[1].aps[k].hit
    /\ \E k \in 1..Len(served[1].aps) : ~served[1].aps[k].hit

RemoveAt(aps, k) == [j \in 1..(Len(aps) - 1) |-> IF j < k THEN aps[j] ELSE aps[j + 1]]

\* the worker's response to the last request with emitter k left out, from an
\* empty cache
ResponseWithout(k) ==
    onmessage(<< >>, << >>, [LastRequest EXCEPT !.aps = RemoveAt(LastRequest.aps, k)]).posted

\* C9: the composite signal posted for an emitter list is, at every cell, at
\* least the composite for the same environment and the list with any one
\* emitter left out.
C9_AddingNeverLowers ==
    posted # << >> =>
        \A k \in 1..Len(LastRequest.aps) :
            \A i \in DOMAIN LastPosted.signalGrid :
                LastPosted.signalGrid[i] >= ResponseWithout(k).signalGrid[i]

\* a response for two emitters in which the second raises the composite at
\* one cell and leaves it at the first emitter's value at another
C9_Witness ==
    /\ posted # << >>
    /\ Len(LastRequest.aps) = 2
    /\ \E i \in DOMAIN LastPosted.signalGrid :
           LastPosted.signalGrid[i] > ResponseWithout(2).signalGrid[i]
    /\ \E i \in DOMAIN LastPosted.signalGrid :
           /\ LastPosted.signalGrid[i] = ResponseWithout(2).signalGrid[i]
           /\ LastPosted.signalGrid[i] > ResponseWithout(1).signalGrid[i]

\* the field of the k-th requested emitter
FieldOfAp(k) ==
    propagateWave(LastRequest.aps[k], LastRequest.walls, LastRequest.doors, LastRequest.width,
                  LastRequest.height, LastRequest.cellSize, LastRequest.pixelsPerMeter)

\* the greatest of a non-empty finite set of integers
MaxOf(S) == CHOOSE v \in S : \A u \in S : u <= v

\* C10: in every response each cell's signal is the maximum of the floor and
\* the requested emitters' field values there; where that maximum is above
\* the floor, the cell's distance is the one recorded by an emitter whose
\* field attains it; where it is the floor itself, the distance stays
\* Infinity.
C10_MaxComposition ==
    posted # << >> =>
        LET fields == [k \in 1..Len(LastRequest.aps) |-> FieldOfAp(k)]
        IN  \A i \in DOMAIN LastPosted.signalGrid :
                /\ LastPosted.signalGrid[i] =
                       MaxOf({Floor} \cup { fields[k].signalGrid[i] : k \in 1..Len(fields) })
                /\ LastPosted.signalGrid[i] > Floor =>
                       \E k \in 1..Len(fields) :
                           /\ fields[k].signalGrid[i] = LastPosted.signalGrid[i]
                           /\ fields[k].distGrid[i] = LastPosted.minDistGrid[i]
                /\ LastPosted.signalGrid[i] = Floor => LastPosted.minDistGrid[i] = Infinity

\* a response for two emitters, each of which is the strongest somewhere
C10_Witness ==
    /\ posted # << >>
    /\ Len(LastRequest.aps) = 2
    /\ \E i \in DOMAIN LastPosted.signalGrid :
           FieldOfAp(1).signalGrid[i] > FieldOfAp(2).signalGrid[i]
               /\ LastPosted.minDistGrid[i] = FieldOfAp(1).distGrid[i]
    /\ \E i \in DOMAIN LastPosted.signalGrid :
           FieldOfAp(2).signalGrid[i] > FieldOfAp(1).signalGrid[i]
               /\ LastPosted.minDistGrid[i] = FieldOfAp(2).distGrid[i]

\* C13: for a compute request with an empty emitter list the posted
\* composite is -120 with distance Infinity at every cell, and the solver is
\* invoked for no emitter.
C13_EmptyListAllFloor ==
    (posted # << >> /\ LastRequest.aps = << >>) =>
        /\ \A i \in DOMAIN LastPosted.signalGrid :
               LastPosted.signalGrid[i] = Floor /\ LastPosted.minDistGrid[i] = Infinity
        /\ DOMAIN LastPosted.signalGrid = 0..(LastPosted.rows * LastPosted.cols - 1)
        /\ served[1].aps = << >>

\* an empty request answered while the cache held fields of earlier requests
C13_Witness ==
    /\ posted # << >>
    /\ LastRequest.aps = << >>
    /\ served[1].before # {}
    /\ \A i \in DOMAIN LastPosted.signalGrid : LastPosted.signalGrid[i] = Floor

\* C17: in every posted composite each cell's signal is at least -120 and
\* its distance is Infinity exactly when its signal is -120, so per-emitter
\* values at or below the floor never enter the composite.
C17_CompositeAboveFloor ==
    posted # << >> =>
        \A i \in DOMAIN LastPosted.signalGrid :
            /\ LastPosted.signalGrid[i] >= Floor
            /\ LastPosted.minDistGrid[i] = Infinity <=> LastPosted.signalGrid[i] = Floor

\* a response for which a requested emitter's field is below the floor, with
\* a finite distance, at a cell that the composite leaves at the floor
C17_Witness ==
    /\ posted # << >>
    /\ \E k \in 1..Len(LastRequest.aps) : \E i \in DOMAIN LastPosted.signalGrid :
           LET cached == apCache[LastRequest.aps[k].id][1]
           IN  /\ cached.signalGrid[i] < Floor
               /\ cached.distGrid[i] < Infinity
               /\ LastPosted.signalGrid[i] = Floor
               /\ LastPosted.minDistGrid[i] = Infinity

\* the composite of the cache entries of the requested emitters k, k + 1, ...
RECURSIVE MergeCached(_, _, _, _)
MergeCached(final, cache, aps, k) ==
    IF k > Len(aps) THEN final
    ELSE MergeCached(MergeIntoFinal(final, cache[aps[k].id][1].signalGrid,
                                    cache[aps[k].id][1].distGrid),
                     cache, aps, k + 1)

\* the step handles a compute request whose environment is the one of the
\* request before it
SameEnvironmentRequest ==
    /\ received # << >>
    /\ posted' # << >>
    /\ ~served'[1].envChanged
    /\ EnvironmentOf(received'[1]) = EnvironmentOf(received[1])

\* C26: when a request has the same environment as the previous one, the
\* worker invokes propagateWave exactly for the requested emitters whose id
\* has no cache entry or whose entry's hash (x, y, txPower and the
\* directional fields) differs from the emitter's; every other requested
\* emitter keeps its cache entry and its field in the response is that
\* entry's.
C26_SolverOnlyOnMiss ==
    [][SameEnvironmentRequest =>
           /\ \A k \in 1..Len(received'[1].aps) :
                  LET ap == received'[1].aps[k]
                  IN  /\ served'[1].aps[k].id = ap.id
                      /\ served'[1].aps[k].hit
                             <=> (ap.id \in DOMAIN apCache
                                    /\ apCache[ap.id][1].hash = getApHash(ap))
                      /\ served'[1].aps[k].hit => apCache'[ap.id] = apCache[ap.id]
           /\ LET final == MergeCached(InitialFinal(Cardinality(DOMAIN posted'[1].signalGrid)),
                                       apCache', received'[1].aps, 1)
              IN  /\ posted'[1].signalGrid = final.signalGrid
                  /\ posted'[1].minDistGrid = final.minDistGrid]_vars

\* a request in the environment of the one before it, answered with one
\* emitter's field from the cache and another's from the solver
C26_Witness ==
    /\ posted # << >>
    /\ ~served[1].envChanged
    /\ served[1].before # {}
    /\ \E k \in 1..Len(served[1].aps) :
           served[1].aps[k].hit /\ served[1].aps[k].id \in served[1].before
    /\ \E k \in 1..Len(served[1].aps) :
           ~served[1].aps[k].hit /\ served[1].aps[k].id \notin served[1].before

\* C27: the worker handles one message at a time, in arrival order: a
\* compute request posts exactly one result, which carries that request's
\* id, before the next message is taken; WARMUP posts nothing and leaves
\* the cache and the stored environment hash as they were.
C27_OneResultPerRequest ==
    [][IF warmedUp' # warmedUp
       THEN /\ posted' = posted
            /\ apCache' = apCache
            /\ lastEnvironmentHash' = lastEnvironmentHash
       ELSE /\ received' # << >>
            /\ Len(posted') = 1
            /\ posted'[1].id = received'[1].id]_vars

\* after the WARMUP, a request with id 2 has been answered by a worker
\* whose cache held the fields of an earlier request
C27_Witness ==
    /\ warmedUp
    /\ posted # << >>
    /\ received[1].id = 2
    /\ posted[1].id = 2
    /\ served[1].before # {}

\* the last request computed the field of emitter id anew
Recomputed(log, id) == \E k \in 1..Len(log) : log[k].id = id /\ ~log[k].hit

\* C28: once stored, an emitter's cached grids are never modified: a
\* request that does not clear the cache leaves every entry exactly as
\* stored (hash and both grids) unless it computes that emitter anew and
\* stores a new entry; a cache hit and the merge into the composite write
\* nothing to the entry.
C28_CachedFieldsUntouched ==
    [][(warmedUp' = warmedUp /\ lastEnvironmentHash' = lastEnvironmentHash) =>
           \A id \in DOMAIN apCache :
               /\ id \in DOMAIN apCache'
               /\ Recomputed(served'[1].aps, id) \/ apCache'[id] = apCache[id]]_vars

\* a request in the unchanged environment answered from the cache while the
\* cache holds the field of another emitter that was not requested
C28_Witness ==
    /\ posted # << >>
    /\ ~served[1].envChanged
    /\ \E k \in 1..Len(served[1].aps) : served[1].aps[k].hit
    /\ \E id \in served[1].before :
           /\ id \in DOMAIN apCache
           /\ \A k \in 1..Len(served[1].aps) : served[1].aps[k].id # id

\* ------------------------------------------------------------------------
\* Specification SpecEditor: the editor, its request counter and its worker
\* ------------------------------------------------------------------------

\* largest request id issued
MaxCalculations == 4

\* largest number of emitters on the canvas
MaxAps == 2

\* largest number of changes to the scene
MaxVersions == 3

\* the trigger-calculation effect, run after a render in which the scene or
\* draggedApId changed: dragged, count and version are the values rendered
TriggerCalculation(dragged, count, version) ==
    IF dragged # "null"
    THEN UNCHANGED << calculationIdRef, toWorker, signalGridRef >>
    ELSE /\ calculationIdRef' = calculationIdRef + 1
         /\ IF count = 0
            THEN signalGridRef' = << >> /\ UNCHANGED toWorker
            ELSE /\ toWorker' = Append(toWorker, [type |-> "COMPUTE", id |-> calculationIdRef + 1,
                                                  aps |-> count, scene |-> version])
                 /\ UNCHANGED signalGridRef

\* the effect may still issue an id
CanTrigger == draggedApId # "null" \/ calculationIdRef < MaxCalculations

\* after mount: the worker exists, WARMUP is posted and the trigger effect has
\* run once on the empty scene
InitEditor ==
    /\ IdleSolver
    /\ IdleRaster
    /\ IdleWorker
    /\ IdleUnit
    /\ calculationIdRef = 1
    /\ apsCount = 0
    /\ sceneVersion = 0
    /\ draggedApId = "null"
    /\ toWorker = << [type |-> "WARMUP", id |-> 0, aps |-> 0, scene |-> 0] >>
    /\ toEditor = << >>
    /\ signalGridRef = << >>
    /\ receivedId = 0

\* an emitter is placed (the ap tool)
AddAp ==
    /\ draggedApId = "null"
    /\ apsCount < MaxAps /\ sceneVersion < MaxVersions /\ CanTrigger
    /\ apsCount' = apsCount + 1
    /\ sceneVersion' = sceneVersion + 1
    /\ TriggerCalculation("null", apsCount + 1, sceneVersion + 1)
    /\ UNCHANGED << draggedApId, toEditor, receivedId >>
    /\ UNCHANGED << solverVars, rasterVars, workerVars >>
    /\ UNCHANGED unitVars

\* the selected emitter is deleted; the drag, if any, ends with it
RemoveAp ==
    /\ apsCount > 0 /\ sceneVersion < MaxVersions /\ calculationIdRef < MaxCalculations
    /\ apsCount' = apsCount - 1
    /\ sceneVersion' = sceneVersion + 1
    /\ draggedApId' = "null"
    /\ TriggerCalculation("null", apsCount - 1, sceneVersion + 1)
    /\ UNCHANGED << toEditor, receivedId >>
    /\ UNCHANGED << solverVars, rasterVars, workerVars >>
    /\ UNCHANGED unitVars

\* walls, doors, the scale or an emitter's settings change
EditScene ==
    /\ draggedApId = "null"
    /\ sceneVersion < MaxVersions /\ CanTrigger
    /\ sceneVersion' = sceneVersion + 1
    /\ TriggerCalculation("null", apsCount, sceneVersion + 1)
    /\ UNCHANGED << apsCount, draggedApId, toEditor, receivedId >>
    /\ UNCHANGED << solverVars, rasterVars, workerVars >>
    /\ UNCHANGED unitVars

\* mouse down on an emitter with the select tool
StartDrag ==
    /\ draggedApId = "null"
    /\ apsCount > 0
    /\ draggedApId' = "ap"
    /\ TriggerCalculation("ap", apsCount, sceneVersion)
    /\ UNCHANGED << apsCount, sceneVersion, toEditor, receivedId >>
    /\ UNCHANGED << solverVars, rasterVars, workerVars >>
    /\ UNCHANGED unitVars

\* mouse move while dragging: the emitter follows, nothing is recomputed
DragMove ==
    /\ draggedApId # "null"
    /\ sceneVersion < MaxVersions
    /\ sceneVersion' = sceneVersion + 1
    /\ TriggerCalculation(draggedApId, apsCount, sceneVersion + 1)
    /\ UNCHANGED << apsCount, draggedApId, toEditor, receivedId >>
    /\ UNCHANGED << solverVars, rasterVars, workerVars >>
    /\ UNCHANGED unitVars

\* a mouse up that ends the drag without running the trigger effect
EndDrag_NoTrigger ==
    /\ draggedApId # "null"
    /\ calculationIdRef < MaxCalculations
    /\ draggedApId' = "null"
    /\ UNCHANGED << calculationIdRef, toWorker, signalGridRef >>
    /\ UNCHANGED << apsCount, sceneVersion, toEditor, receivedId >>
    /\ UNCHANGED << solverVars, rasterVars, workerVars >>
    /\ UNCHANGED unitVars

\* mouse up: the drag ends and the scene is recomputed
EndDrag ==
    /\ draggedApId # "null"
    /\ calculationIdRef < MaxCalculations
    /\ draggedApId' = "null"
    /\ TriggerCalculation("null", apsCount, sceneVersion)
    /\ UNCHANGED << apsCount, sceneVersion, toEditor, receivedId >>
    /\ UNCHANGED << solverVars, rasterVars, workerVars >>
    /\ UNCHANGED unitVars

\* the worker's onmessage takes the next message: WARMUP posts nothing, a
\* compute request posts its result with the request's id
WorkerHandles ==
    /\ toWorker # << >>
    /\ toWorker' = Tail(toWorker)
    /\ IF Head(toWorker).type = "WARMUP"
       THEN UNCHANGED toEditor
       ELSE toEditor' = Append(toEditor, [id |-> Head(toWorker).id,
                                          grids |-> [aps |-> Head(toWorker).aps,
                                                     scene |-> Head(toWorker).scene]])
    /\ UNCHANGED << calculationIdRef, apsCount, sceneVersion, draggedApId, signalGridRef, receivedId >>
    /\ UNCHANGED << solverVars, rasterVars, workerVars >>
    /\ UNCHANGED unitVars

\* worker.onmessage in the editor, with the id check left out
ReceiveUnchecked ==
    /\ toEditor # << >>
    /\ toEditor' = Tail(toEditor)
    /\ receivedId' = Head(toEditor).id
    /\ signalGridRef' = << Head(toEditor).grids >>
    /\ UNCHANGED << calculationIdRef, apsCount, sceneVersion, draggedApId, toWorker >>
    /\ UNCHANGED << solverVars, rasterVars, workerVars >>
    /\ UNCHANGED unitVars

\* worker.onmessage in the editor: a result whose id is not the current one
\* is discarded, the current one is put on display
EditorReceives ==
    /\ toEditor # << >>
    /\ toEditor' = Tail(toEditor)
    /\ IF Head(toEditor).id # calculationIdRef
       THEN UNCHANGED << receivedId, signalGridRef >>
       ELSE /\ receivedId' = Head(toEditor).id
            /\ signalGridRef' = << Head(toEditor).grids >>
    /\ UNCHANGED << calculationIdRef, apsCount, sceneVersion, draggedApId, toWorker >>
    /\ UNCHANGED << solverVars, rasterVars, workerVars >>
    /\ UNCHANGED unitVars

NextEditor ==
    \/ AddAp
    \/ RemoveAp
    \/ EditScene
    \/ StartDrag
    \/ DragMove
    \/ EndDrag
    \/ WorkerHandles
    \/ EditorReceives

SpecEditor == InitEditor /\ [][NextEditor]_vars

\* C1: the grids on display, and the id noted with them, change to a result's
\* only when that result's id is the current value of the request counter; a
\* result with any other id leaves them as they are.
C1_OnlyCurrentResultApplied ==
    [][ ((signalGridRef' # signalGridRef /\ signalGridRef' # << >>) \/ receivedId' # receivedId)
            => /\ toEditor # << >>
               /\ Head(toEditor).id = calculationIdRef
               /\ signalGridRef' = << Head(toEditor).grids >>
               /\ receivedId' = calculationIdRef ]_vars

\* the next result to arrive was superseded by a change to zero emitters
C1_Witness ==
    /\ toEditor # << >>
    /\ Head(toEditor).id < calculationIdRef
    /\ apsCount = 0
    /\ signalGridRef = << >>

\* the editor with a worker that answers every request and an event loop
\* that delivers every result: a message in either queue is handled at last
SpecEditorFair ==
    /\ SpecEditor
    /\ WF_vars(WorkerHandles)
    /\ WF_vars(EditorReceives)

\* the field the worker computes for a scene
ResultFor(count, version) == << [aps |-> count, scene |-> version] >>

\* C25: if the edits stop with at least one emitter on the canvas and no
\* drag in progress, and the worker answers every request, then from some
\* moment on the field on display is the worker's result for the final
\* walls, doors and emitters.
C25_FinalSceneDisplayed ==
    \A count \in 1..MaxAps : \A version \in 0..MaxVersions :
        <>[](apsCount = count /\ sceneVersion = version /\ draggedApId = "null")
            => <>[](signalGridRef = ResultFor(count, version))

\* a drag moved an emitter and ended, an earlier result was superseded, and
\* the result for the scene as it now is has been put on display
C25_Witness ==
    /\ apsCount > 0
    /\ draggedApId = "null"
    /\ sceneVersion > 1
    /\ toWorker = << >>
    /\ toEditor = << >>
    /\ receivedId = calculationIdRef
    /\ receivedId > 2
    /\ signalGridRef = ResultFor(apsCount, sceneVersion)

\* ------------------------------------------------------------------------
\* Specification SpecFloat32: runDijkstra with the stores into its
\* Float32Array state.  totalLossState[newIdx] = newTotalLoss keeps
\* Math.fround(newTotalLoss); the stored value differs from the computed one
\* by less than the unit of this model and lies above or below it.  The
\* direction is the choice ups of each iteration.
\* ------------------------------------------------------------------------

\* canvas of these runs, in cells
Float32Cols == 3

Float32Rows == 2

Float32Scenes ==
    { Scene(OmniAp("ap1", 25, 10, 20), << >>, << >>),
      Scene(OmniAp("ap1", 5, 5, 20), << >>, << >>) }

\* newTotalLoss < totalLossState[newIdx], the right side read back from the
\* Float32Array: a candidate equal to the value that was stored is below the
\* stored value when the store rounded up
BelowStored(st, up, newTotalLoss, newIdx) ==
    \/ newTotalLoss < st.totalLossState[newIdx]
    \/ newTotalLoss = st.totalLossState[newIdx] /\ newIdx \in up

\* the assignments and the enqueue of an accepted candidate
StoreCandidate(st, ctx, cand) ==
    [signalGrid |-> [st.signalGrid EXCEPT ![cand.newIdx] = ctx.startSignal - cand.newTotalLoss],
     distGrid |-> [st.distGrid EXCEPT ![cand.newIdx] =
                      Max((DistUnit * ctx.pixelsPerMeter) \div (10 * ctx.cellSize), cand.newDist)],
     totalLossState |-> [st.totalLossState EXCEPT ![cand.newIdx] = cand.newTotalLoss],
     wallLossState |-> [st.wallLossState EXCEPT ![cand.newIdx] = cand.newWallLoss],
     distState |-> [st.distState EXCEPT ![cand.newIdx] = cand.newDist],
     heap |-> enqueue(st.heap, cand.newIdx, cand.newTotalLoss)]

\* the test and the stores of one direction, for a candidate in the grid and
\* inside the mask
RelaxCandidate(acc, ctx, cand, ups) ==
    IF BelowStored(acc.st, acc.up, cand.newTotalLoss, cand.newIdx)
    THEN [st |-> StoreCandidate(acc.st, ctx, cand),
          up |-> IF cand.newIdx \in ups THEN acc.up \cup {cand.newIdx} ELSE acc.up \ {cand.newIdx}]
    ELSE acc

\* the body of the direction loop for one direction
RelaxFloat32(acc, ctx, currentIdx, currentWallLoss, currentDist, dir, ups) ==
    LET nr == (currentIdx \div ctx.cols) + dir.dr
        nc == (currentIdx % ctx.cols) + dir.dc
    IN  IF ~(nr >= 0 /\ nr < ctx.rows /\ nc >= 0 /\ nc < ctx.cols) THEN acc
        ELSE IF ~MaskAllows(ctx.mask, nc, nr, ctx.cellSize) THEN acc
        ELSE RelaxCandidate(acc, ctx, Candidate(ctx, currentWallLoss, currentDist, nr, nc, dir), ups)

RECURSIVE RelaxAllFloat32(_, _, _, _, _, _, _)
RelaxAllFloat32(acc, ctx, currentIdx, currentWallLoss, currentDist, k, ups) ==
    IF k > Len(Directions) THEN acc
    ELSE RelaxAllFloat32(RelaxFloat32(acc, ctx, currentIdx, currentWallLoss, currentDist,
                                      Directions[k], ups),
                         ctx, currentIdx, currentWallLoss, currentDist, k + 1, ups)

\* one iteration of the while loop; ups: the cells whose store rounds up
DijkstraStepFloat32(st, up, ctx, ups) ==
    LET currentIdx == st.heap[1].element
    IN  IF ~Expands(st.signalGrid[currentIdx])
        THEN [st |-> [st EXCEPT !.heap = dequeue(st.heap)], up |-> up]
        ELSE RelaxAllFloat32([st |-> [st EXCEPT !.heap = dequeue(st.heap)], up |-> up], ctx,
                             currentIdx, st.wallLossState[currentIdx], st.distState[currentIdx],
                             1, ups)

\* the cells next to a cell
Neighbours(ctx, cell) ==
    { other \in Cells(ctx) :
        /\ other # cell
        /\ Abs((other \div ctx.cols) - (cell \div ctx.cols)) <= 1
        /\ Abs((other % ctx.cols) - (cell % ctx.cols)) <= 1 }

InitFloat32 ==
    /\ IdleEditor
    /\ IdleRaster
    /\ IdleWorker
    /\ scene \in Float32Scenes
    /\ pc = "float32"
    /\ runCtx = DirectContext(scene.ap, scene.walls, scene.doors, Float32Cols * GRID_SIZE,
                              Float32Rows * GRID_SIZE, GRID_SIZE, DEFAULT_PIXELS_PER_METER)
    /\ run = DijkstraStart(runCtx)
    /\ mainField = NoField
    /\ reflIdx = 0
    /\ above = {}
    /\ IdleQueue
    /\ IdleScene
    /\ IdleMirror

\* one iteration of runDijkstra's while loop
Float32Step ==
    /\ pc = "float32"
    /\ Len(run.heap) > 0
    /\ \E ups \in SUBSET Neighbours(runCtx, run.heap[1].element) :
           \E out \in { DijkstraStepFloat32(run, above, runCtx, ups) } :
               /\ run' = out.st
               /\ above' = out.up
    /\ UNCHANGED << scene, pc, runCtx, mainField, reflIdx >>
    /\ UNCHANGED << rasterVars, workerVars, editorVars >>
    /\ UNCHANGED << queueVars, sceneVars, mirrorVars >>

\* the queue is empty: runDijkstra returns
Float32Return ==
    /\ pc = "float32"
    /\ Len(run.heap) = 0
    /\ pc' = "done"
    /\ mainField' = FieldOf(run)
    /\ UNCHANGED << scene, run, runCtx, reflIdx >>
    /\ UNCHANGED << rasterVars, workerVars, editorVars, unitVars >>

NextFloat32 == Float32Step \/ Float32Return

SpecFloat32 == InitFloat32 /\ [][NextFloat32]_vars

\* how many entries of the queue hold the cell
QueueEntries(heap, cell) == Cardinality({ i \in 1..Len(heap) : heap[i].element = cell })

\* C21: (runDijkstra's queue eventually becomes empty and the solver
\* returns, and) a cell is enqueued only when its recorded total loss
\* strictly decreases.
C21_EnqueuedOnlyOnDecrease ==
    [][\A cell \in Cells(runCtx) :
           QueueEntries(run'.heap, cell) > QueueEntries(run.heap, cell)
               => run'.totalLossState[cell] < run.totalLossState[cell]]_vars

\* ------------------------------------------------------------------------
\* Specification SpecQueue: a PriorityQueue under enqueue and dequeue calls
\* ------------------------------------------------------------------------

\* most entries held
MaxQueue == 4

\* priorities are 0..MaxPriority, elements 0..MaxElement
MaxPriority == 2

MaxElement == 1

InitQueue ==
    /\ IdleSolver
    /\ IdleRaster
    /\ IdleWorker
    /\ IdleEditor
    /\ IdleUnit

\* pq.enqueue(element, priority)
QueueEnqueue ==
    /\ Len(pqHeap) < MaxQueue
    /\ \E element \in 0..MaxElement, priority \in 0..MaxPriority :
           pqHeap' = enqueue(pqHeap, element, priority)
    /\ UNCHANGED << pqReturned, above, sceneVars, mirrorVars >>
    /\ UNCHANGED << solverVars, rasterVars, workerVars, editorVars >>

\* pq.dequeue()
QueueDequeue ==
    /\ pqReturned' = [called |-> TRUE, value |-> dequeued(pqHeap)]
    /\ pqHeap' = dequeue(pqHeap)
    /\ UNCHANGED << above, sceneVars, mirrorVars >>
    /\ UNCHANGED << solverVars, rasterVars, workerVars, editorVars >>

NextQueue == QueueEnqueue \/ QueueDequeue

SpecQueue == InitQueue /\ [][NextQueue]_vars

\* how many times the entry is held
Held(heap, entry) == Cardinality({ i \in 1..Len(heap) : heap[i] = entry })

\* the entries a heap may hold
QueueEntrySet ==
    { [element |-> element, priority |-> priority] :
        element \in 0..(MaxElement + 1), priority \in 0..(MaxPriority + 1) }

\* after is before with one entry `removed` taken out
RemovesOne(before, after, removed) ==
    /\ Len(after) = Len(before) - 1
    /\ \A entry \in QueueEntrySet :
           Held(after, entry) = Held(before, entry) - (IF entry = removed THEN 1 ELSE 0)

\* C22: after any sequence of enqueue and dequeue calls, dequeue removes
\* exactly one held entry whose priority is at most that of every other held
\* entry and returns its element; on an empty queue it returns undefined
\* and the queue stays empty.
C22_DequeueTakesMinimum ==
    [][QueueDequeue =>
           IF Len(pqHeap) = 0
           THEN pqReturned'.value = << >> /\ pqHeap' = << >>
           ELSE \E i \in 1..Len(pqHeap) :
                    /\ \A j \in 1..Len(pqHeap) : pqHeap[i].priority <= pqHeap[j].priority
                    /\ pqReturned'.value = << pqHeap[i].element >>
                    /\ RemovesOne(pqHeap, pqHeap', pqHeap[i])]_vars

\* a dequeue has returned an element and left three entries behind, the
\* right child of the root of lower priority value than the left one
C22_Witness ==
    /\ pqReturned.called
    /\ pqReturned.value # << >>
    /\ Len(pqHeap) = 3
    /\ pqHeap[3].priority < pqHeap[2].priority

\* ------------------------------------------------------------------------
\* the choice of the reflecting walls
\* ------------------------------------------------------------------------

\* the exact squared point-to-segment distance from the emitter to a wall,
\* as a fraction << numerator, denominator >>
DistSqExact(ap, w) ==
    LET A == w.start.x - ap.x
        B == w.start.y - ap.y
        C == w.end.x - w.start.x
        D == w.end.y - w.start.y
        dot == A * C + B * D
        len_sq == C * C + D * D
        toEndX == ap.x - w.end.x
        toEndY == ap.y - w.end.y
    IN  IF len_sq = 0 \/ dot > 0 THEN << A * A + B * B, 1 >>
        ELSE IF -dot > len_sq THEN << toEndX * toEndX + toEndY * toEndY, 1 >>
        ELSE << (A * A + B * B) * len_sq - dot * dot, len_sq >>

NoFarther(ap, w1, w2) ==
    DistSqExact(ap, w1)[1] * DistSqExact(ap, w2)[2]
        <= DistSqExact(ap, w2)[1] * DistSqExact(ap, w1)[2]

\* the ids of the metal walls whose reflection run has started
ProcessedWalls ==
    { WallsToProcess(scene.ap, scene.walls)[k].id : k \in 1..reflIdx }

MetalWallsOf(walls) == { walls[i] : i \in { j \in DOMAIN walls : IsMetal(walls[j]) } }

\* C23: propagateWave runs the reflection solver for at most six metal
\* walls, and every metal wall it processes is no farther from the emitter
\* (point-to-segment distance) than any metal wall it skips
C23_NearestSixReflected ==
    pc \in {"refl", "done"} =>
        /\ reflIdx <= 6
        /\ pc = "done" =>
              \A p \in MetalWallsOf(scene.walls), q \in MetalWallsOf(scene.walls) :
                  (p.id \in ProcessedWalls /\ q.id \notin ProcessedWalls)
                      => NoFarther(scene.ap, p, q)

\* propagateWave has returned for a scene with more than six metal walls
C23_Witness ==
    /\ pc = "done"
    /\ Cardinality(MetalWallsOf(scene.walls)) > 6
    /\ reflIdx = 6
    /\ \E q \in MetalWallsOf(scene.walls) : q.id \notin ProcessedWalls

\* ------------------------------------------------------------------------
\* Specification SpecScene: the editor's walls, doors and emitters under the
\* drawing, selecting and deleting operations
\* ------------------------------------------------------------------------

\* largest number of ids crypto.randomUUID() hands out
MaxUuids == 7

\* scenes the editor starts from: the empty canvas, and a loaded plan with
\* walls 1 and 2, a door on each (3 and 4) and emitter 5
SceneInits ==
    { [walls |-> << >>, doors |-> << >>, aps |-> << >>, uuids |-> 0],
      [walls |-> << 1, 2 >>,
       doors |-> << [id |-> 3, wallId |-> 1], [id |-> 4, wallId |-> 2] >>,
       aps |-> << 5 >>, uuids |-> 5] }

InitScene ==
    /\ IdleSolver
    /\ IdleRaster
    /\ IdleWorker
    /\ IdleEditor
    /\ above = {}
    /\ IdleQueue
    /\ IdleMirror
    /\ \E init \in SceneInits :
           /\ editorWalls = init.walls
           /\ editorDoors = init.doors
           /\ editorAps = init.aps
           /\ uuidCount = init.uuids
    /\ selectedEntity = << >>

\* the wall tool: mouse down clears the selection, mouse up appends the wall
\* when the stroke is longer than 5 pixels
DrawWall ==
    /\ uuidCount < MaxUuids
    /\ selectedEntity' = << >>
    /\ \E longEnough \in BOOLEAN :
           IF longEnough
           THEN /\ editorWalls' = Append(editorWalls, uuidCount + 1)
                /\ uuidCount' = uuidCount + 1
           ELSE UNCHANGED << editorWalls, uuidCount >>
    /\ UNCHANGED << editorDoors, editorAps >>
    /\ UNCHANGED << solverVars, rasterVars, workerVars, editorVars, above, queueVars, mirrorVars >>

\* the door tool: a click near a wall appends a door with that wall's id, a
\* click elsewhere (k = 0) does nothing
AddDoor ==
    /\ uuidCount < MaxUuids
    /\ \E k \in 0..Len(editorWalls) :
           IF k = 0
           THEN UNCHANGED << editorDoors, uuidCount >>
           ELSE /\ editorDoors' = Append(editorDoors,
                                         [id |-> uuidCount + 1, wallId |-> editorWalls[k]])
                /\ uuidCount' = uuidCount + 1
    /\ UNCHANGED << editorWalls, editorAps, selectedEntity >>
    /\ UNCHANGED << solverVars, rasterVars, workerVars, editorVars, above, queueVars, mirrorVars >>

\* what a click with the select tool can hit
Selectable ==
    {<< >>}
        \cup { << [type |-> "door", id |-> editorDoors[k].id] >> : k \in 1..Len(editorDoors) }
        \cup { << [type |-> "ap", id |-> editorAps[k]] >> : k \in 1..Len(editorAps) }
        \cup { << [type |-> "wall", id |-> editorWalls[k]] >> : k \in 1..Len(editorWalls) }

\* the select tool: a click on a door, an emitter, a wall or the empty canvas
SelectEntity ==
    /\ \E target \in Selectable : selectedEntity' = target
    /\ UNCHANGED << editorWalls, editorDoors, editorAps, uuidCount >>
    /\ UNCHANGED << solverVars, rasterVars, workerVars, editorVars, above, queueVars, mirrorVars >>

\* prev.filter(x => x !== id) on a list of ids
WithoutId(ids, id) ==
    LET Keep(x) == x # id IN SelectSeq(ids, Keep)

\* prev.filter(d => d.id !== id)
WithoutDoor(doors, id) ==
    LET Keep(d) == d.id # id IN SelectSeq(doors, Keep)

\* prev.filter(d => d.wallId !== id)
WithoutDoorsOf(doors, id) ==
    LET Keep(d) == d.wallId # id IN SelectSeq(doors, Keep)

\* a Delete Wall button that removes the wall and leaves its doors
DeleteWallPopup_KeepsDoors ==
    /\ selectedEntity # << >>
    /\ selectedEntity[1].type = "wall"
    /\ editorWalls' = WithoutId(editorWalls, selectedEntity[1].id)
    /\ selectedEntity' = << >>
    /\ UNCHANGED << editorDoors, editorAps, uuidCount >>
    /\ UNCHANGED << solverVars, rasterVars, workerVars, editorVars, above, queueVars, mirrorVars >>

\* deleteSelected
DeleteSelected ==
    /\ selectedEntity # << >>
    /\ IF selectedEntity[1].type = "ap"
       THEN /\ editorAps' = WithoutId(editorAps, selectedEntity[1].id)
            /\ UNCHANGED << editorWalls, editorDoors >>
       ELSE IF selectedEntity[1].type = "door"
       THEN /\ editorDoors' = WithoutDoor(editorDoors, selectedEntity[1].id)
            /\ UNCHANGED << editorWalls, editorAps >>
       ELSE /\ editorWalls' = WithoutId(editorWalls, selectedEntity[1].id)
            /\ editorDoors' = WithoutDoorsOf(editorDoors, selectedEntity[1].id)
            /\ UNCHANGED editorAps
    /\ selectedEntity' = << >>
    /\ UNCHANGED uuidCount
    /\ UNCHANGED << solverVars, rasterVars, workerVars, editorVars, above, queueVars, mirrorVars >>

\* the Delete Wall button of the wall popup, shown while a wall is selected
DeleteWallPopup ==
    /\ selectedEntity # << >>
    /\ selectedEntity[1].type = "wall"
    /\ editorWalls' = WithoutId(editorWalls, selectedEntity[1].id)
    /\ editorDoors' = WithoutDoorsOf(editorDoors, selectedEntity[1].id)
    /\ selectedEntity' = << >>
    /\ UNCHANGED << editorAps, uuidCount >>
    /\ UNCHANGED << solverVars, rasterVars, workerVars, editorVars, above, queueVars, mirrorVars >>

\* clearAll, confirmed
ClearAll ==
    /\ editorWalls' = << >>
    /\ editorAps' = << >>
    /\ editorDoors' = << >>
    /\ selectedEntity' = << >>
    /\ UNCHANGED uuidCount
    /\ UNCHANGED << solverVars, rasterVars, workerVars, editorVars, above, queueVars, mirrorVars >>

NextScene ==
    \/ DrawWall
    \/ AddDoor
    \/ SelectEntity
    \/ DeleteSelected
    \/ DeleteWallPopup
    \/ ClearAll

SpecScene == InitScene /\ [][NextScene]_vars

\* C29: starting from a scene in which every door's wallId names an
\* existing wall, after any sequence of drawing a wall, adding a door,
\* deleting the selected entity, deleting a wall from its popup and
\* clearing all, every door's wallId still names an existing wall.
C29_DoorsHaveWalls ==
    \A k \in 1..Len(editorDoors) :
        \E j \in 1..Len(editorWalls) : editorWalls[j] = editorDoors[k].wallId

\* a wall of the loaded plan is gone, its door with it, and a door stands
\* on a wall drawn since
C29_Witness ==
    /\ \A j \in 1..Len(editorWalls) : editorWalls[j] # 1
    /\ \A k \in 1..Len(editorDoors) : editorDoors[k].id # 3
    /\ \E k \in 1..Len(editorDoors) : editorDoors[k].wallId > 5
    /\ \E k \in 1..Len(editorDoors) : editorDoors[k].wallId = 2

\* ------------------------------------------------------------------------
\* IEEE 754 double arithmetic, as JavaScript numbers compute it.  A finite
\* number is [neg, mant, exp]: (-1)^neg * mant * LimbBase^exp, with the
\* natural number mant held as its digits in base LimbBase, least
\* significant first (TLC's integers have 32 bits, a double's significand
\* has 53).  Every operation is the exact result rounded to 53 significant
\* bits, ties to even.  The values met here are far from overflow and
\* underflow.
\* ------------------------------------------------------------------------

\* bits of the significand of a double
SignificandBits == 53

\* bits of one digit of mant
LimbBits == 15

LimbBase == 2 ^ LimbBits

\* digits after the point the long division produces before it rounds
QuotientLimbs == 5

RECURSIVE NatLimbs(_)
NatLimbs(n) == IF n = 0 THEN << >> ELSE << n % LimbBase >> \o NatLimbs(n \div LimbBase)

LimbAt(m, i) == IF i <= Len(m) THEN m[i] ELSE 0

\* m without its leading zero digits
RECURSIVE TrimLimbs(_)
TrimLimbs(m) ==
    IF m = << >> THEN << >>
    ELSE IF m[Len(m)] = 0 THEN TrimLimbs(SubSeq(m, 1, Len(m) - 1))
    ELSE m

RECURSIVE AddLimbs(_, _, _, _)
AddLimbs(x, y, i, carry) ==
    IF i > Len(x) /\ i > Len(y) THEN (IF carry = 0 THEN << >> ELSE << carry >>)
    ELSE << (LimbAt(x, i) + LimbAt(y, i) + carry) % LimbBase >>
             \o AddLimbs(x, y, i + 1, (LimbAt(x, i) + LimbAt(y, i) + carry) \div LimbBase)

\* x - y for x >= y
RECURSIVE SubLimbs(_, _, _, _)
SubLimbs(x, y, i, borrow) ==
    IF i > Len(x) THEN << >>
    ELSE << (LimbAt(x, i) - LimbAt(y, i) - borrow + LimbBase) % LimbBase >>
             \o SubLimbs(x, y, i + 1, IF LimbAt(x, i) - LimbAt(y, i) - borrow < 0 THEN 1 ELSE 0)

\* x < y, for x and y without leading zeros
LessLimbs(x, y) ==
    IF Len(x) # Len(y) THEN Len(x) < Len(y)
    ELSE \E i \in 1..Len(x) :
             /\ x[i] < y[i]
             /\ \A j \in (i + 1)..Len(x) : x[j] = y[j]

\* m * LimbBase^k
ShiftLimbs(m, k) == IF m = << >> THEN << >> ELSE [i \in 1..k |-> 0] \o m

\* m * n for a natural number n below LimbBase
RECURSIVE TimesLimbs(_, _, _, _)
TimesLimbs(m, n, i, carry) ==
    IF i > Len(m) THEN (IF carry = 0 THEN << >> ELSE << carry >>)
    ELSE << (m[i] * n + carry) % LimbBase >>
             \o TimesLimbs(m, n, i + 1, (m[i] * n + carry) \div LimbBase)

\* the number of bits of m, for m without leading zeros
BitLength(m) ==
    IF m = << >> THEN 0
    ELSE LimbBits * (Len(m) - 1) + Cardinality({ i \in 0..(LimbBits - 1) : 2 ^ i <= m[Len(m)] })

\* bit b of m, bit 0 the least significant
BitOf(m, b) == (LimbAt(m, b \div LimbBits + 1) \div (2 ^ (b % LimbBits))) % 2

\* the k lowest bits of m are zero
LowBitsZero(m, k) ==
    /\ \A i \in 1..(k \div LimbBits) : LimbAt(m, i) = 0
    /\ LimbAt(m, k \div LimbBits + 1) % (2 ^ (k % LimbBits)) = 0

\* m with its k lowest bits cleared
ClearLowBits(m, k) ==
    [i \in 1..Len(m) |->
        IF i <= k \div LimbBits THEN 0
        ELSE IF i = k \div LimbBits + 1 THEN m[i] - (m[i] % (2 ^ (k % LimbBits)))
        ELSE m[i]]

\* 2^k
OneAtBit(k) == ShiftLimbs(<< 2 ^ (k % LimbBits) >>, k \div LimbBits)

Dyadic(neg, mant, exp) == [neg |-> neg, mant |-> mant, exp |-> exp]

\* an integer as a double (exact below 2^53)
DoubleOfInt(n) == Dyadic(n < 0, NatLimbs(Abs(n)), 0)

\* the significand rounded at bit k: to nearest, ties to even; sticky tells
\* that the exact value lies above the digits given
RoundAtBit(u, k, sticky) ==
    IF BitOf(u.mant, k - 1) = 1 /\ (sticky \/ ~LowBitsZero(u.mant, k - 1) \/ BitOf(u.mant, k) = 1)
    THEN Dyadic(u.neg, AddLimbs(ClearLowBits(u.mant, k), OneAtBit(k), 1, 0), u.exp)
    ELSE Dyadic(u.neg, ClearLowBits(u.mant, k), u.exp)

\* the exact value u rounded to a double
Round53(u, sticky) ==
    IF BitLength(u.mant) <= SignificandBits THEN u
    ELSE RoundAtBit(u, BitLength(u.mant) - SignificandBits, sticky)

\* the exact sum of two numbers
ExactSum(u, v) ==
    LET e == Min(u.exp, v.exp)
        mu == ShiftLimbs(u.mant, u.exp - e)
        mv == ShiftLimbs(v.mant, v.exp - e)
    IN  IF u.neg = v.neg THEN Dyadic(u.neg, AddLimbs(mu, mv, 1, 0), e)
        ELSE IF LessLimbs(mu, mv) THEN Dyadic(v.neg, TrimLimbs(SubLimbs(mv, mu, 1, 0)), e)
        ELSE Dyadic(u.neg, TrimLimbs(SubLimbs(mu, mv, 1, 0)), e)

Negated(u) == Dyadic(~u.neg, u.mant, u.exp)

\* u + v
DoubleSum(u, v) == Round53(ExactSum(u, v), FALSE)

\* u - v
DoubleDifference(u, v) == Round53(ExactSum(u, Negated(v)), FALSE)

\* u * n for an integer n
DoubleTimesInt(u, n) ==
    IF n = 0 THEN Dyadic(FALSE, << >>, 0)
    ELSE Round53(Dyadic(u.neg # (n < 0), TimesLimbs(u.mant, Abs(n), 1, 0), u.exp), FALSE)

\* the digits after the point of r / d for 0 <= r < d <= 2^16, k of them,
\* and the remainder left
RECURSIVE FractionLimbs(_, _, _)
FractionLimbs(r, d, k) ==
    IF k = 0 THEN [limbs |-> << >>, rem |-> r]
    ELSE LET rest == FractionLimbs((r * LimbBase) % d, d, k - 1)
         IN  [limbs |-> Append(rest.limbs, (r * LimbBase) \div d), rem |-> rest.rem]

\* n / d for integers n and d with 0 < d <= 2^16
DoubleQuotient(n, d) ==
    LET frac == FractionLimbs(Abs(n) % d, d, QuotientLimbs)
    IN  Round53(Dyadic(n < 0, TrimLimbs(frac.limbs \o NatLimbs(Abs(n) \div d)), -QuotientLimbs),
                frac.rem # 0)

\* Math.sign
DoubleSign(u) == IF u.mant = << >> THEN 0 ELSE IF u.neg THEN -1 ELSE 1

\* mirrorPointAcrossLine for a point and a line with integer coordinates;
\* the differences, the products and the sums of the integers are exact
mirrorPointAcrossLineDouble(point, lineStart, lineEnd) ==
    LET dx == lineEnd.x - lineStart.x
        dy == lineEnd.y - lineStart.y
        len2 == dx * dx + dy * dy
    IN  IF len2 = 0 THEN [x |-> DoubleOfInt(point.x), y |-> DoubleOfInt(point.y)]
        ELSE LET t == DoubleQuotient((point.x - lineStart.x) * dx
                                         + (point.y - lineStart.y) * dy, len2)
                 projX == DoubleSum(DoubleOfInt(lineStart.x), DoubleTimesInt(t, dx))
                 projY == DoubleSum(DoubleOfInt(lineStart.y), DoubleTimesInt(t, dy))
             IN  [x |-> DoubleDifference(DoubleTimesInt(projX, 2), DoubleOfInt(point.x)),
                  y |-> DoubleDifference(DoubleTimesInt(projY, 2), DoubleOfInt(point.y))]

\* getSideOfLine for a line with integer coordinates and a point of doubles
getSideOfLineDouble(a, b, p) ==
    DoubleSign(DoubleDifference(
                   DoubleTimesInt(DoubleDifference(p.y, DoubleOfInt(a.y)), b.x - a.x),
                   DoubleTimesInt(DoubleDifference(p.x, DoubleOfInt(a.x)), b.y - a.y)))

\* ------------------------------------------------------------------------
\* The reflection step of propagateWave on its own: an emitter position and
\* a metal wall's end points are given, and the step places the virtual
\* source at the emitter's mirror image across the wall's line.
\* ------------------------------------------------------------------------

\* emitter coordinates range over 0..MaxMirrorCoord
MaxMirrorCoord == 17

\* the walls' lines: slanted, horizontal, vertical and of zero length
MirrorLines ==
    { << Pt(0, 2), Pt(11, 13) >>, << Pt(3, 1), Pt(9, 14) >>, << Pt(0, 0), Pt(10, 0) >>,
      << Pt(7, 0), Pt(7, 12) >>, << Pt(17, 3), Pt(2, 9) >>, << Pt(5, 5), Pt(5, 5) >> }

InitMirror ==
    /\ IdleSolver
    /\ IdleRaster
    /\ IdleWorker
    /\ IdleEditor
    /\ above = {}
    /\ IdleQueue
    /\ IdleScene
    /\ \E x \in 0..MaxMirrorCoord : \E y \in 0..MaxMirrorCoord : \E line \in MirrorLines :
           mirrorArgs = << [point |-> Pt(x, y), lineStart |-> line[1], lineEnd |-> line[2]] >>
    /\ virtualAPPos = << >>

\* const virtualAPPos = mirrorPointAcrossLine({ x: ap.x, y: ap.y }, wall.start, wall.end)
ReflectAcrossWall ==
    /\ mirrorArgs # << >>
    /\ virtualAPPos = << >>
    /\ virtualAPPos' = << mirrorPointAcrossLineDouble(mirrorArgs[1].point, mirrorArgs[1].lineStart,
                                                       mirrorArgs[1].lineEnd) >>
    /\ UNCHANGED << mirrorArgs, solverVars, rasterVars, workerVars, editorVars, above,
                    queueVars, sceneVars >>

NextMirror == ReflectAcrossWall

SpecMirror == InitMirror /\ [][NextMirror]_vars

\* the wall's line has two distinct end points
NonZeroLength(args) == args.lineStart # args.lineEnd

\* C30: for every point p and every line of non-zero length, getSideOfLine
\* of mirrorPointAcrossLine(p) is the negation of getSideOfLine of p: once
\* the virtual source of a reflection is placed, it lies on the side of the
\* wall's line opposite to the emitter's (and on the line when the emitter
\* is on the line).
C30_MirrorFlipsSide ==
    (virtualAPPos # << >> /\ NonZeroLength(mirrorArgs[1]))
        => getSideOfLineDouble(mirrorArgs[1].lineStart, mirrorArgs[1].lineEnd, virtualAPPos[1])
               = -getSideOfLine(mirrorArgs[1].lineStart, mirrorArgs[1].lineEnd, mirrorArgs[1].point)

====
